---------------------------- MODULE Spec2Model ----------------------------
(***************************************************************************)
(* LogiFlow ETL: the pipeline orchestrator (src/src/main.py), the upsert   *)
(* loader (src/src/load/db_loader.py) and the validation engine            *)
(* (src/src/transform/validators.py), modelled as state machines.          *)
(*                                                                         *)
(* Four specifications share the data layer below:                         *)
(*   Spec      one ETLPipeline object, run() invoked up to MaxRuns times   *)
(*             against one database and one external source content;       *)
(*   LoadSpec  one DatabaseLoader object, load_dataframe() invoked up to   *)
(*             MaxCalls times on the caller's dataset and one table;       *)
(*   DialectSpec  the same calls on a loader constructed for SQLite or     *)
(*             PostgreSQL, on datasets in which a row may lack its key;    *)
(*   ValidateSpec  one DataValidator object, up to MaxChecks checks        *)
(*             registered, then validate() called on the caller's dataset. *)
(*                                                                         *)
(* Values are integers: 0 is the missing value (None/NaN/NULL), key and    *)
(* cell values are positive, timestamps are readings of a logical clock.   *)
(***************************************************************************)
EXTENDS Integers, Sequences, FiniteSets, TLC

VARIABLES
    \* ---- shared: the database and the loader object
    db,            \* table name -> table (existence, constraints, rows)
    cfg,           \* DatabaseLoader fields: db_type, batch_size, upsert_enabled
    clock,         \* datetime.now(), advanced by every load_dataframe call
    \* ---- LoadSpec: direct calls of the loader
    df,            \* the caller's dataset
    call,          \* the last load_dataframe call and what it did
    ncalls,        \* number of calls made
    \* ---- Spec: ETLPipeline.run
    pc,            \* position of run(): idle, schema, extract, ... done, failed
    external,      \* content of the external sources (API and CSV directory)
    args,          \* run(source, validate)
    raw_data,      \* result of _extract
    cleaned_data,  \* result of _transform
    results,       \* the run summary dict
    load_idx,      \* position of _load in load_order
    load_counts,   \* _load's per-table counts
    trace,         \* phases this run has entered, in order
    loader_calls,  \* tables the loader was invoked for in this run, in order
    db_at_start,   \* rows of every table when this run started
    last_run,      \* how the previous run() ended and with which arguments
    runs,          \* number of run() invocations started
    finished,      \* number of run() invocations that returned or raised
    raised,        \* the exception run() raised to its caller, "none" if none
    etl_run_log,   \* rows of the etl_run_log table
    \* ---- ValidateSpec: direct use of a DataValidator
    validator,     \* the DataValidator object: table name and registered checks
    frame,         \* the dataset handed to validate
    validation     \* the last validate call and what it returned

vars == <<db, cfg, clock, df, call, ncalls, pc, external, args, raw_data,
          cleaned_data, results, load_idx, load_counts, trace, loader_calls,
          db_at_start, last_run, runs, finished, raised, etl_run_log,
          validator, frame, validation>>

valVars  == <<validator, frame, validation>>
loadVars == <<df, call, ncalls>>
runVars  == <<pc, external, args, raw_data, cleaned_data, results, load_idx,
              load_counts, trace, loader_calls, db_at_start, last_run,
              runs, finished, raised, etl_run_log>>

----------------------------------------------------------------------------
(* Bounds *)

MaxRows  == 2      \* rows in a dataset handed to the loader
MaxCalls == 2      \* load_dataframe calls in one LoadSpec behaviour
MaxRuns  == 2      \* run() invocations in one Spec behaviour

Null == 0          \* None / NaN / SQL NULL
KeyValues  == {1, 2}
CellValues == {1, 2}

----------------------------------------------------------------------------
(* Datasets (pandas DataFrames): a column set and a sequence of rows, each *)
(* row a function from the columns to values.                              *)

Dataset(columns, rows) == [columns |-> columns, rows |-> rows]

EmptyFrame == Dataset({}, <<>>)      \* pd.DataFrame()

IsEmptyNever(d) == FALSE

\* DataFrame.empty: any axis of length 0
IsEmpty(d) == Len(d.rows) = 0 \/ d.columns = {}

SeqsUpTo(S, n) == UNION {[1..m -> S] : m \in 0..n}

RECURSIVE SelectIdx(_, _, _)
\* the subsequence of s at the indices i >= from that are in keep
SelectIdx(s, keep, from) ==
    IF from > Len(s) THEN <<>>
    ELSE IF from \in keep THEN <<s[from]>> \o SelectIdx(s, keep, from + 1)
         ELSE SelectIdx(s, keep, from + 1)

\* df[[c for c in df.columns if c in keep]]
Project(d, keep) ==
    LET cols == d.columns \cap keep
    IN  Dataset(cols, [i \in 1..Len(d.rows) |-> [c \in cols |-> d.rows[i][c]]])

\* df[column] = value   (adds the column or overwrites it)
WithColumn(d, column, value) ==
    LET cols == d.columns \cup {column}
    IN  Dataset(cols, [i \in 1..Len(d.rows) |->
                          [c \in cols |-> IF c = column THEN value ELSE d.rows[i][c]]])

\* df.rename(columns={old: new})
Rename(d, old, new) ==
    IF old \notin d.columns THEN d
    ELSE LET cols == (d.columns \ {old}) \cup {new}
         IN  Dataset(cols, [i \in 1..Len(d.rows) |->
                    [c \in cols |-> IF c = new THEN d.rows[i][old] ELSE d.rows[i][c]]])

\* df.iloc[start : start + size], start counted from 0 as in the source
Slice(d, start, size) ==
    LET last == IF start + size < Len(d.rows) THEN start + size ELSE Len(d.rows)
    IN  Dataset(d.columns, SubSeq(d.rows, start + 1, last))

----------------------------------------------------------------------------
(* The database: what the SQL engine does with the statements the loader   *)
(* sends.  A table has the constraints its CREATE TABLE statement gave it. *)

NoPK == "<none>"

NoTable == [exists |-> FALSE, columns |-> {}, pk |-> NoPK, autoinc |-> FALSE,
            notnull |-> {}, rows |-> <<>>]

TableNames == {"customers", "sellers", "products", "orders", "order_items"}

\* _get_primary_key / the PRIMARY KEY clauses of initialize_schema
pk_mapping(table_name) ==
    CASE table_name = "customers"   -> "customer_id"
      [] table_name = "sellers"     -> "seller_id"
      [] table_name = "products"    -> "product_id"
      [] table_name = "orders"      -> "order_id"
      [] table_name = "order_items" -> "id"

\* The columns of the CREATE TABLE statements; of each table's data columns
\* the model keeps the key and those the modelled datasets carry.
SchemaColumns(table_name) ==
    CASE table_name = "customers"   -> {"customer_id", "city", "created_at", "updated_at"}
      [] table_name = "sellers"     -> {"seller_id", "seller_city", "created_at", "updated_at"}
      [] table_name = "products"    -> {"product_id", "title", "created_at", "updated_at"}
      [] table_name = "orders"      -> {"order_id", "customer_id", "order_date",
                                        "order_purchase_timestamp", "created_at", "updated_at"}
      [] table_name = "order_items" -> {"id", "order_id", "product_id", "created_at", "updated_at"}

SchemaTable(table_name, rows) ==
    [exists  |-> TRUE,
     columns |-> SchemaColumns(table_name),
     pk      |-> pk_mapping(table_name),
     autoinc |-> table_name = "order_items",          \* INTEGER PRIMARY KEY AUTOINCREMENT
     notnull |-> IF table_name = "order_items" THEN {"order_id"} ELSE {},
     rows    |-> rows]

\* The table pandas creates when to_sql finds none: the frame's columns, no constraint.
FrameTable(d) ==
    [exists |-> TRUE, columns |-> d.columns, pk |-> NoPK, autoinc |-> FALSE,
     notnull |-> {}, rows |-> d.rows]

\* A row as stored: the columns the statement does not name are NULL; an
\* AUTOINCREMENT key that is not given is assigned.
Stored(tbl, row) ==
    [c \in tbl.columns |->
        IF c \in DOMAIN row /\ row[c] # Null THEN row[c]
        ELSE IF tbl.autoinc /\ c = tbl.pk THEN Len(tbl.rows) + 1
        ELSE Null]

HasKey(tbl, k) == \E i \in 1..Len(tbl.rows) : tbl.rows[i][tbl.pk] = k

\* An INSERT of the row is rejected.  SQLite admits NULL in a non-INTEGER
\* PRIMARY KEY column (and treats NULLs as distinct); PostgreSQL rejects it.
InsertRejected(tbl, row, db_type) ==
    LET s == Stored(tbl, row)
    IN  \/ ~(DOMAIN row \subseteq tbl.columns)                        \* no such column
        \/ \E c \in tbl.notnull : s[c] = Null                          \* NOT NULL
        \/ tbl.pk # NoPK /\ s[tbl.pk] = Null /\ db_type = "postgresql" \* PRIMARY KEY is NOT NULL
        \/ tbl.pk # NoPK /\ s[tbl.pk] # Null /\ HasKey(tbl, s[tbl.pk]) \* PRIMARY KEY is UNIQUE

InsertRow(tbl, row) == [tbl EXCEPT !.rows = Append(@, Stored(tbl, row))]

RECURSIVE InsertRows(_, _, _, _)
\* One executemany INSERT in one transaction: all rows or none.
InsertRows(tbl, rows, i, db_type) ==
    IF i > Len(rows) THEN [ok |-> TRUE, tbl |-> tbl]
    ELSE IF InsertRejected(tbl, rows[i], db_type) THEN [ok |-> FALSE, tbl |-> tbl]
    ELSE InsertRows(InsertRow(tbl, rows[i]), rows, i + 1, db_type)

\* pandas DataFrame.to_sql(table, engine, if_exists=..., index=False)
\* exc: "none", "ValueError" (if_exists='fail' on an existing table),
\* "IntegrityError" (a SQLAlchemyError: the INSERT was rejected and rolled back),
\* "OperationalError" (a SQLAlchemyError: the database cannot be reached).
to_sql(tbl, d, if_exists, db_type, conn_ok) ==
    IF ~conn_ok THEN [tbl |-> tbl, exc |-> "OperationalError"]
    ELSE IF ~tbl.exists THEN [tbl |-> FrameTable(d), exc |-> "none"]
    ELSE IF if_exists = "fail" THEN [tbl |-> tbl, exc |-> "ValueError"]
    ELSE IF if_exists = "replace" THEN [tbl |-> FrameTable(d), exc |-> "none"]
    ELSE LET r == InsertRows(tbl, d.rows, 1, db_type)
         IN  IF r.ok THEN [tbl |-> r.tbl, exc |-> "none"]
             ELSE [tbl |-> tbl, exc |-> "IntegrityError"]


----------------------------------------------------------------------------
(* DatabaseLoader *)

NoKey == "<no key>"      \* upsert_key=None

\* INSERT ... ON CONFLICT(key_column) DO NOTHING
UpsertStatementDoNothing(tbl, row, key_column, db_type) ==
    LET columns == {c \in DOMAIN row : row[c] # Null}
        values  == [c \in columns |-> row[c]]
    IN  IF tbl.pk # key_column \/ ~(columns \subseteq tbl.columns)
        THEN [ok |-> FALSE, tbl |-> tbl]
        ELSE IF key_column \in columns /\ HasKey(tbl, row[key_column])
        THEN [ok |-> TRUE, tbl |-> tbl]
        ELSE IF InsertRejected(tbl, values, db_type)
        THEN [ok |-> FALSE, tbl |-> tbl]
        ELSE [ok |-> TRUE, tbl |-> InsertRow(tbl, values)]

\* a statement that names every column: SET c = NULL for the row's null cells
UpsertStatementAllColumns(tbl, row, key_column, db_type) ==
    LET columns == {c \in DOMAIN row : row[c] # Null}
        values  == [c \in columns |-> row[c]]
        updated == DOMAIN row \ {key_column}
        hit(i)  == key_column \in columns /\ tbl.rows[i][key_column] = row[key_column]
    IN  IF \/ tbl.pk # key_column
           \/ updated = {}
           \/ ~(columns \subseteq tbl.columns)
        THEN [ok |-> FALSE, tbl |-> tbl]
        ELSE IF \E i \in 1..Len(tbl.rows) : hit(i)
        THEN [ok |-> TRUE,
              tbl |-> [tbl EXCEPT !.rows = [i \in 1..Len(tbl.rows) |->
                          IF hit(i)
                          THEN [c \in tbl.columns |->
                                   IF c \in updated THEN row[c] ELSE tbl.rows[i][c]]
                          ELSE tbl.rows[i]]]]
        ELSE IF InsertRejected(tbl, values, db_type)
        THEN [ok |-> FALSE, tbl |-> tbl]
        ELSE [ok |-> TRUE, tbl |-> InsertRow(tbl, values)]

\* One statement of _upsert_data: INSERT INTO t (the row's non-null columns)
\* VALUES (...) ON CONFLICT(key_column) DO UPDATE SET c = <new value> for every
\* named column but the key.  Both dialect branches build this statement; they
\* differ in how the new value is written (:c / EXCLUDED.c).
UpsertStatement(tbl, row, key_column, db_type) ==
    LET columns == {c \in DOMAIN row : row[c] # Null}        \* pd.notna(row[c])
        values  == [c \in columns |-> row[c]]
        updated == columns \ {key_column}
        hit(i)  == key_column \in columns /\ tbl.rows[i][key_column] = row[key_column]
    IN  IF \/ tbl.pk # key_column          \* ON CONFLICT needs a unique key_column
           \/ updated = {}                 \* "DO UPDATE SET" with nothing to set
           \/ ~(columns \subseteq tbl.columns)
        THEN [ok |-> FALSE, tbl |-> tbl]
        ELSE IF \E i \in 1..Len(tbl.rows) : hit(i)
        THEN [ok |-> TRUE,
              tbl |-> [tbl EXCEPT !.rows = [i \in 1..Len(tbl.rows) |->
                          IF hit(i)
                          THEN [c \in tbl.columns |->
                                   IF c \in updated THEN row[c] ELSE tbl.rows[i][c]]
                          ELSE tbl.rows[i]]]]
        ELSE IF InsertRejected(tbl, values, db_type)
        THEN [ok |-> FALSE, tbl |-> tbl]
        ELSE [ok |-> TRUE, tbl |-> InsertRow(tbl, values)]

RECURSIVE UpsertRows(_, _, _, _, _, _, _)
\* The loops of _upsert_data (batches in order, rows in order within a batch:
\* the rows in dataset order), all inside one "with engine.begin()" block.
\* A failed statement is caught and skipped.  In PostgreSQL it also aborts the
\* transaction: every later statement fails and the final COMMIT rolls back.
UpsertRows(tbl, rows, i, key_column, db_type, n, aborted) ==
    IF i > Len(rows) THEN [tbl |-> tbl, n |-> n, aborted |-> aborted]
    ELSE IF aborted
    THEN UpsertRows(tbl, rows, i + 1, key_column, db_type, n, TRUE)
    ELSE LET r == UpsertStatement(tbl, rows[i], key_column, db_type)
         IN  IF r.ok
             THEN UpsertRows(r.tbl, rows, i + 1, key_column, db_type, n + 1, FALSE)
             ELSE UpsertRows(tbl, rows, i + 1, key_column, db_type, n,
                             db_type = "postgresql")

\* DatabaseLoader._upsert_data(df, table_name, key_column)
_upsert_data(tbl, d, key_column, c, conn_ok) ==
    IF key_column \notin d.columns
    THEN LET r == to_sql(tbl, d, "append", c.db_type, conn_ok)
         IN  [tbl |-> r.tbl, exc |-> r.exc,
              ret |-> IF r.exc = "none" THEN Len(d.rows) ELSE Null]
    ELSE IF ~conn_ok                                   \* engine.begin() raises
    THEN [tbl |-> tbl, exc |-> "OperationalError", ret |-> Null]
    ELSE LET r == UpsertRows(tbl, d.rows, 1, key_column, c.db_type, 0, FALSE)
         IN  [tbl |-> IF r.aborted THEN tbl ELSE r.tbl, exc |-> "none", ret |-> r.n]

RECURSIVE BatchInsertStops(_, _, _, _, _, _, _)
\* a loop that is left at the first failed batch ("break" in the handler)
BatchInsertStops(tbl, d, start, if_exists, c, conn_ok, rows_loaded) ==
    IF start >= Len(d.rows)
    THEN [tbl |-> tbl, exc |-> "none", ret |-> rows_loaded]
    ELSE LET batch == Slice(d, start, c.batch_size)
             r     == to_sql(tbl, batch, if_exists, c.db_type, conn_ok)
         IN  IF r.exc = "none"
             THEN BatchInsertStops(r.tbl, d, start + c.batch_size, if_exists, c,
                                   conn_ok, rows_loaded + Len(batch.rows))
             ELSE IF r.exc \in {"IntegrityError", "OperationalError"}
             THEN [tbl |-> tbl, exc |-> "none", ret |-> rows_loaded]
             ELSE [tbl |-> tbl, exc |-> r.exc, ret |-> Null]

RECURSIVE BatchInsert(_, _, _, _, _, _, _)
\* The "simple batch insert" loop of load_dataframe: a batch whose to_sql
\* raises a SQLAlchemyError is logged and skipped, any other exception leaves
\* the loop and the call.
BatchInsert(tbl, d, start, if_exists, c, conn_ok, rows_loaded) ==
    IF start >= Len(d.rows)
    THEN [tbl |-> tbl, exc |-> "none", ret |-> rows_loaded]
    ELSE LET batch == Slice(d, start, c.batch_size)
             r     == to_sql(tbl, batch, if_exists, c.db_type, conn_ok)
         IN  IF r.exc = "none"
             THEN BatchInsert(r.tbl, d, start + c.batch_size, if_exists, c, conn_ok,
                              rows_loaded + Len(batch.rows))
             ELSE IF r.exc \in {"IntegrityError", "OperationalError"}
             THEN BatchInsert(tbl, d, start + c.batch_size, if_exists, c, conn_ok,
                              rows_loaded)
             ELSE [tbl |-> tbl, exc |-> r.exc, ret |-> Null]

\* The dataset load_dataframe works on: a copy with updated_at stamped always,
\* created_at stamped when absent, projected onto the destination's columns
\* when the destination can be inspected.
Prepared(tbl, d, now, conn_ok) ==
    LET stamped == IF "created_at" \in d.columns
                   THEN WithColumn(d, "updated_at", now)
                   ELSE WithColumn(WithColumn(d, "updated_at", now), "created_at", now)
    IN  IF conn_ok /\ tbl.exists THEN Project(stamped, tbl.columns) ELSE stamped

\* a loader without "df = df.copy()": the two column assignments act on the
\* dataset the caller passed
CallerFrameStamped(d, now) ==
    IF "created_at" \in d.columns
    THEN WithColumn(d, "updated_at", now)
    ELSE WithColumn(WithColumn(d, "updated_at", now), "created_at", now)

\* The dataset the caller passed, as load_dataframe leaves it: "df = df.copy()"
\* rebinds the name to a copy before the first assignment, to_sql, iloc and
\* iterrows only read.
CallerFrame(d, now) == d

table_has_data_never(tbl, conn_ok) == FALSE

\* a test for the table itself instead of its rows
table_has_data_if_exists(tbl, conn_ok) == conn_ok /\ tbl.exists

\* SELECT COUNT(*) FROM table > 0; a query that raises counts as "no data"
table_has_data(tbl, conn_ok) == conn_ok /\ tbl.exists /\ Len(tbl.rows) > 0

\* DatabaseLoader.load_dataframe(df, table_name, if_exists, upsert_key) on the
\* table tbl, at time now.  exc # "none" means the call raised exc.
\* strategy, inspected, counted record what the call did.
load_dataframe(tbl, d, if_exists, upsert_key, c, now, conn_ok) ==
    IF IsEmpty(d)
    THEN [tbl |-> tbl, exc |-> "none", ret |-> 0, strategy |-> "skip",
          inspected |-> FALSE, counted |-> FALSE, df |-> d]
    ELSE LET p == Prepared(tbl, d, now, conn_ok)
         IN  IF c.upsert_enabled /\ upsert_key # NoKey /\ upsert_key \in p.columns
             THEN IF table_has_data(tbl, conn_ok)
                      THEN LET r == _upsert_data(tbl, p, upsert_key, c, conn_ok)
                           IN  [tbl |-> r.tbl, exc |-> r.exc, ret |-> r.ret,
                                strategy |-> "upsert",
                                inspected |-> TRUE, counted |-> TRUE,
                                df |-> CallerFrame(d, now)]
                      ELSE LET r == to_sql(tbl, p, "append", c.db_type, conn_ok)
                           IN  [tbl |-> r.tbl, exc |-> r.exc,
                                ret |-> IF r.exc = "none" THEN Len(p.rows) ELSE Null,
                                strategy |-> "bulk",
                                inspected |-> TRUE, counted |-> TRUE,
                                df |-> CallerFrame(d, now)]
             ELSE LET r == BatchInsert(tbl, p, 0, if_exists, c, conn_ok, 0)
                  IN  [tbl |-> r.tbl, exc |-> r.exc, ret |-> r.ret,
                       strategy |-> "batch",
                       inspected |-> TRUE, counted |-> FALSE,
                       df |-> CallerFrame(d, now)]

\* load_customers .. load_order_items
load_customers(tbl, d, c, now, conn_ok) ==
    load_dataframe(tbl, d, "append", "customer_id", c, now, conn_ok)

load_sellers(tbl, d, c, now, conn_ok) ==
    load_dataframe(tbl, d, "append", "seller_id", c, now, conn_ok)

load_products(tbl, d, c, now, conn_ok) ==
    LET renamed == IF "id" \in d.columns /\ "product_id" \notin d.columns
                   THEN Rename(d, "id", "product_id") ELSE d
    IN  [load_dataframe(tbl, renamed, "append", "product_id", c, now, conn_ok)
            EXCEPT !.df = d]

load_orders(tbl, d, c, now, conn_ok) ==
    load_dataframe(tbl, d, "append", "order_id", c, now, conn_ok)

load_order_items(tbl, d, c, now, conn_ok) ==
    load_dataframe(tbl, d, "append", NoKey, c, now, conn_ok)


----------------------------------------------------------------------------
(* LoadSpec: a caller holding a customers dataset calls load_dataframe on   *)
(* the customers table.                                                    *)

DbTypes    == {"sqlite", "postgresql"}
BatchSizes == {1, 2}
IfExists   == {"append", "replace", "fail"}

Configs == [db_type : DbTypes, batch_size : BatchSizes, upsert_enabled : BOOLEAN]

\* DatabaseLoader() as the tests and the DAG construct it: SQLite
SqliteConfigs == {c \in Configs : c.db_type = "sqlite"}

CustomerRows == [customer_id : KeyValues, city : CellValues \cup {Null}]

CustomerFrames == {Dataset({"customer_id", "city"}, r) : r \in SeqsUpTo(CustomerRows, MaxRows)}

\* a customers row an earlier load wrote at time 1
OldCustomer(k) == [c \in SchemaColumns("customers") |->
                      IF c = "customer_id" THEN k ELSE 1]

\* The customers table before the first call: not created, created and empty,
\* or created and holding rows written by earlier loads.
InitialCustomers ==
    {NoTable, SchemaTable("customers", <<>>),
     SchemaTable("customers", <<OldCustomer(1)>>),
     SchemaTable("customers", <<OldCustomer(1), OldCustomer(2)>>)}

NoCall == [n |-> 0]

NoRun == [status |-> "none"]

NoValidation == [called |-> FALSE]

IdleValidator ==
    /\ validator = <<>>
    /\ frame = <<>>
    /\ validation = NoValidation

IdleRun ==
    /\ pc = "idle"
    /\ external = <<>>
    /\ args = <<>>
    /\ raw_data = <<>>
    /\ cleaned_data = <<>>
    /\ results = <<>>
    /\ load_idx = 0
    /\ load_counts = <<>>
    /\ trace = <<>>
    /\ loader_calls = <<>>
    /\ db_at_start = <<>>
    /\ last_run = NoRun
    /\ runs = 0
    /\ finished = 0
    /\ raised = "none"
    /\ etl_run_log = <<>>

LoadInit ==
    /\ cfg \in SqliteConfigs
    /\ \E t \in InitialCustomers :
          db = [name \in TableNames |-> IF name = "customers" THEN t ELSE NoTable]
    /\ clock = 1
    /\ df \in CustomerFrames
    /\ call = NoCall
    /\ ncalls = 0
    /\ IdleRun
    /\ IdleValidator

\* What the caller hands over: its whole dataset, or the single row that
\* follows the rows of its earlier calls (df.iloc[ncalls : ncalls + 1]).
Parts == {"all", "next"}

Handed(part) == IF part = "all" THEN df ELSE Slice(df, ncalls, 1)

\* loader.load_dataframe(<part of df>, "customers", if_exists=..., upsert_key=...)
\* A caller repeats its call with the arguments of its first call.
LoadDataframe(part, if_exists, upsert_key) ==
    /\ ncalls < MaxCalls
    /\ ncalls > 0 => if_exists = call.if_exists /\ upsert_key = call.upsert_key
    /\ LET now == clock + 1
           d   == Handed(part)
           r   == load_dataframe(db["customers"], d, if_exists, upsert_key, cfg, now, TRUE)
       IN  /\ db' = [db EXCEPT !["customers"] = r.tbl]
           /\ clock' = now
           /\ call' = [n |-> ncalls + 1, df |-> d, if_exists |-> if_exists,
                       upsert_key |-> upsert_key, now |-> now,
                       before |-> db["customers"],
                       ret |-> r.ret, exc |-> r.exc, strategy |-> r.strategy,
                       inspected |-> r.inspected, counted |-> r.counted,
                       after |-> r.df,
                       prev |-> IF ncalls = 0 THEN NoCall
                                ELSE [n |-> call.n, df |-> call.df, exc |-> call.exc,
                                      before |-> call.before]]
           /\ df' = IF part = "all" THEN r.df ELSE df
    /\ ncalls' = ncalls + 1
    /\ UNCHANGED cfg
    /\ UNCHANGED runVars
    /\ UNCHANGED valVars

\* upsert_key: None, the key of the table, or a column the dataset lacks
UpsertKeys == {NoKey, "customer_id", "email"}

LoadNext ==
    \E part \in Parts, if_exists \in IfExists, upsert_key \in UpsertKeys :
        LoadDataframe(part, if_exists, upsert_key)

LoadSpec == LoadInit /\ [][LoadNext]_vars

\* DialectSpec: the same calls on a loader constructed for either database,
\* upsert enabled, with datasets in which a row may lack its key.
KeyedOrNot == [customer_id : KeyValues \cup {Null}, city : {1}]

DialectFrames ==
    {Dataset({"customer_id", "city"}, r) : r \in SeqsUpTo(KeyedOrNot, MaxRows)}

DialectInit ==
    /\ cfg \in {c \in Configs : c.upsert_enabled}
    /\ \E t \in {SchemaTable("customers", <<>>),
                  SchemaTable("customers", <<OldCustomer(1)>>)} :
          db = [name \in TableNames |-> IF name = "customers" THEN t ELSE NoTable]
    /\ clock = 1
    /\ df \in DialectFrames
    /\ call = NoCall
    /\ ncalls = 0
    /\ IdleRun
    /\ IdleValidator

DialectSpec == DialectInit /\ [][LoadNext]_vars


----------------------------------------------------------------------------
(* Properties of load_dataframe, checked under LoadSpec *)

customers == db["customers"]

Keys(rows, key_column) == {rows[i][key_column] : i \in 1..Len(rows)}

DistinctKeys(rows, key_column) ==
    \A i, j \in 1..Len(rows) : i # j => rows[i][key_column] # rows[j][key_column]

\* the last two calls handed over the same dataset, with the upsert key
SameLoadTwice ==
    /\ call.n >= 2
    /\ call.prev.df = call.df
    /\ call.upsert_key = "customer_id"
    /\ cfg.upsert_enabled

\* C5: a non-empty dataset D with pairwise distinct (non-null) key values,
\* loaded twice in succession with its upsert key, upsert enabled, into a
\* table that was empty (or not yet created) or held one row for each of D's
\* keys and no other, leaves the table with exactly len(D) rows, one per key
\* of D.
C5_LoadTwiceKeepsLenD ==
    (/\ SameLoadTwice
     /\ Len(call.df.rows) > 0
     /\ DistinctKeys(call.df.rows, "customer_id")
     /\ \/ Len(call.prev.before.rows) = 0
        \/ /\ Keys(call.prev.before.rows, "customer_id") = Keys(call.df.rows, "customer_id")
           /\ DistinctKeys(call.prev.before.rows, "customer_id"))
    => /\ Len(customers.rows) = Len(call.df.rows)
       /\ Keys(customers.rows, "customer_id") = Keys(call.df.rows, "customer_id")
       /\ DistinctKeys(customers.rows, "customer_id")

\* a two-row dataset was bulk-inserted into the empty table, then upserted
C5_Witness ==
    /\ SameLoadTwice
    /\ Len(call.df.rows) = 2
    /\ DistinctKeys(call.df.rows, "customer_id")
    /\ call.prev.before = SchemaTable("customers", <<>>)
    /\ call.strategy = "upsert"
    /\ call.ret = 2
    /\ Len(customers.rows) = 2

\* the last two calls each handed over one row, both with the same key, to
\* the upsert of the customers table initialize_schema creates
UpsertedSameKeyTwice ==
    /\ call.n >= 2
    /\ call.upsert_key = "customer_id"
    /\ cfg.upsert_enabled
    /\ call.prev.before.pk = "customer_id"
    /\ Len(call.prev.df.rows) = 1
    /\ Len(call.df.rows) = 1
    /\ call.prev.df.rows[1]["customer_id"] = call.df.rows[1]["customer_id"]
    /\ call.df.rows[1]["city"] # Null

C7_NeverRaisesForRowFailure ==
    call.n > 0 => call.exc # "IntegrityError"

\* the rows of the dataset the call handed over that the table holds after it:
\* the stored row carries the call's timestamp and the row's values
PersistedRows ==
    {i \in 1..Len(call.df.rows) :
        \E j \in 1..Len(customers.rows) :
            /\ "updated_at" \in customers.columns
            /\ customers.rows[j]["updated_at"] = call.now
            /\ \A c \in call.df.columns \cap customers.columns :
                  call.df.rows[i][c] # Null => customers.rows[j][c] = call.df.rows[i][c]}

\* C8: the value load_dataframe returns is the number of rows of the dataset
\* that the call persisted, whatever the strategy and the if_exists argument
\* (stated for datasets whose keys are pairwise distinct, so that every
\* written row is told apart in the table).
C8_ReturnsRowsPersisted ==
    (call.n > 0 /\ call.exc = "none" /\ DistinctKeys(call.df.rows, "customer_id"))
    => call.ret = Cardinality(PersistedRows)

\* C9: load_dataframe on a dataset with zero rows returns 0 at once: no schema
\* inspection, no count query, no write, no exception, the table unchanged.
C9_EmptyDatasetIsNoOp ==
    (call.n > 0 /\ Len(call.df.rows) = 0)
    => /\ call.ret = 0
       /\ call.exc = "none"
       /\ call.strategy = "skip"
       /\ ~call.inspected
       /\ ~call.counted
       /\ customers = call.before

\* an empty dataset was handed over with an upsert key while no table existed
C9_Witness ==
    /\ call.n > 0
    /\ Len(call.df.rows) = 0
    /\ call.upsert_key = "customer_id"
    /\ cfg.upsert_enabled
    /\ ~call.before.exists
    /\ call.ret = 0
    /\ customers = NoTable


----------------------------------------------------------------------------
(* The sources ETLPipeline._extract reads, and the cleaners and validators  *)
(* ETLPipeline._transform and ETLPipeline._validate apply.                  *)

\* a CSV file that is not in the Olist directory
Absent == Dataset({"<absent>"}, <<>>)

\* CSVLoader.OLIST_FILES, in the order load_all_olist reads them
OLIST_FILES == <<"orders", "order_items", "order_payments", "order_reviews",
                 "customers", "sellers", "products", "geolocation">>

\* f"{k}_csv"
CsvKey(name) == name \o "_csv"

\* The words _transform looks for that occur in a key of raw_data ("w in key")
KeyWords(key) ==
    CASE key = "products_api"       -> {"products"}
      [] key = "orders_api"         -> {"orders"}
      [] key = "users_api"          -> {"users"}
      [] key = "orders_csv"         -> {"orders"}
      [] key = "order_items_csv"    -> {"order_items", "items"}
      [] key = "order_payments_csv" -> {}
      [] key = "order_reviews_csv"  -> {}
      [] key = "customers_csv"      -> {"customers"}
      [] key = "sellers_csv"        -> {"sellers"}
      [] key = "products_csv"       -> {"products"}
      [] key = "geolocation_csv"    -> {}

RECURSIVE load_all_olist(_, _)
\* CSVLoader.load_all_olist: the files that exist, keyed by entity name
load_all_olist(csv, i) ==
    IF i > Len(OLIST_FILES) THEN <<>>
    ELSE IF csv[OLIST_FILES[i]] = Absent THEN load_all_olist(csv, i + 1)
    ELSE <<[key |-> OLIST_FILES[i], df |-> csv[OLIST_FILES[i]]]>>
         \o load_all_olist(csv, i + 1)

\* APIConnector.fetch_all: a failed request raises RequestException
fetch_all(api) ==
    <<[key |-> "products", df |-> api.products],
      [key |-> "orders",   df |-> api.orders],
      [key |-> "users",    df |-> api.users]>>

\* ETLPipeline._extract(source): the raw datasets as a list of (key, dataset)
\* in insertion order
_extract(source, ext, api_ok) ==
    LET api_part == IF source \in {"api", "both"}
                    THEN [i \in 1..3 |-> [key |-> fetch_all(ext.api)[i].key \o "_api",
                                          df  |-> fetch_all(ext.api)[i].df]]
                    ELSE <<>>
        csv_data == load_all_olist(ext.csv, 1)
        csv_part == IF source \in {"csv", "both"} /\ ext.olist_exists
                    THEN [i \in 1..Len(csv_data) |-> [key |-> CsvKey(csv_data[i].key),
                                                      df  |-> csv_data[i].df]]
                    ELSE <<>>
    IN  IF source \in {"api", "both"} /\ ~api_ok
        THEN [exc |-> "RequestException", data |-> <<>>]
        ELSE [exc |-> "none", data |-> api_part \o csv_part]

\* DataCleaner.remove_duplicates(df, subset): drop_duplicates(keep="first")
remove_duplicates(d, subset) ==
    LET same(i, j) == \A c \in subset : d.rows[i][c] = d.rows[j][c]
        first(i)   == \A j \in 1..(i - 1) : ~same(i, j)
    IN  Dataset(d.columns, SelectIdx(d.rows, {i \in 1..Len(d.rows) : first(i)}, 1))

\* DataCleaner.handle_missing_values(df, strategy="drop", columns): dropna
handle_missing_values_drop(d, columns) ==
    LET complete(i) == \A c \in columns : d.rows[i][c] # Null
    IN  Dataset(d.columns, SelectIdx(d.rows, {i \in 1..Len(d.rows) : complete(i)}, 1))

\* Timestamp cells: Utc is a timestamp without a UTC offset or in UTC, Offset
\* is a timestamp that carries another UTC offset.
Utc == 1
Offset == 2

\* The columns OrdersCleaner.clean takes for timestamps ("timestamp" or "date"
\* in the name)
TimestampColumns == {"order_date", "order_purchase_timestamp"}

\* pd.to_datetime(df[col], errors="coerce") yields no datetime column when the
\* offsets are mixed, and the .dt accessor that follows raises
MixedOffsets(d, column) ==
    /\ \E i \in 1..Len(d.rows) : d.rows[i][column] = Utc
    /\ \E i \in 1..Len(d.rows) : d.rows[i][column] = Offset

\* DataCleaner.standardize_timestamps: every timestamp converted to UTC
standardize_timestamps(d, columns) ==
    IF \E c \in columns : MixedOffsets(d, c)
    THEN [exc |-> "AttributeError", df |-> d]
    ELSE [exc |-> "none",
          df  |-> Dataset(d.columns, [i \in 1..Len(d.rows) |->
                     [c \in d.columns |->
                         IF c \in columns /\ d.rows[i][c] = Offset THEN Utc
                         ELSE d.rows[i][c]]])]

\* OrdersCleaner.clean (the steps that act on the modelled columns)
OrdersCleaner_clean(d) ==
    LET deduped  == IF "order_id" \in d.columns
                    THEN remove_duplicates(d, {"order_id"})
                    ELSE remove_duplicates(d, d.columns)
        stamped  == standardize_timestamps(deduped, TimestampColumns \cap d.columns)
        required == {"order_id", "order_purchase_timestamp"} \cap d.columns
    IN  IF stamped.exc # "none" THEN stamped
        ELSE [exc |-> "none", df |-> handle_missing_values_drop(stamped.df, required)]

\* ProductsCleaner.clean
ProductsCleaner_clean(d) ==
    IF "id" \in d.columns THEN remove_duplicates(d, {"id"})
    ELSE IF "product_id" \in d.columns THEN remove_duplicates(d, {"product_id"})
    ELSE d

\* OrderItemsCleaner.clean
OrderItemsCleaner_clean(d) ==
    LET dup_cols == {"order_id", "product_id"} \cap d.columns
    IN  IF dup_cols # {} THEN remove_duplicates(d, dup_cols) ELSE d

\* a loop without the break: the last matching entry wins
FirstKeyLast(raw, matching, i) ==
    IF matching = {} THEN 0
    ELSE CHOOSE j \in matching : \A x \in matching : x <= j

RECURSIVE FirstKey(_, _, _)
\* for key in raw_data: if <match>: ...; break  -- the first entry at or after
\* i that is among the matching ones, 0 if none
FirstKey(raw, matching, i) ==
    IF i > Len(raw) THEN 0
    ELSE IF i \in matching THEN i
    ELSE FirstKey(raw, matching, i + 1)

\* ETLPipeline._transform(raw_data): table name -> cleaned dataset
_transform(raw) ==
    LET isProducts(k)  == "products" \in KeyWords(k)
        isOrders(k)    == "orders" \in KeyWords(k) /\ "items" \notin KeyWords(k)
        isItems(k)     == "order_items" \in KeyWords(k) \/ "items" \in KeyWords(k)
        isCustomers(k) == "users" \in KeyWords(k) \/ "customers" \in KeyWords(k)
        isSellers(k)   == "sellers" \in KeyWords(k)
        p == FirstKey(raw, {i \in 1..Len(raw) : isProducts(raw[i].key)}, 1)
        o == FirstKey(raw, {i \in 1..Len(raw) : isOrders(raw[i].key)}, 1)
        t == FirstKey(raw, {i \in 1..Len(raw) : isItems(raw[i].key)}, 1)
        c == FirstKey(raw, {i \in 1..Len(raw) : isCustomers(raw[i].key)}, 1)
        s == FirstKey(raw, {i \in 1..Len(raw) : isSellers(raw[i].key)}, 1)
        orders == IF o = 0 THEN [exc |-> "none", df |-> EmptyFrame]
                  ELSE OrdersCleaner_clean(raw[o].df)
        tables == {"products" : x \in {p} \ {0}}
                  \cup {"orders" : x \in {o} \ {0}}
                  \cup {"order_items" : x \in {t} \ {0}}
                  \cup {"customers" : x \in {c} \ {0}}
                  \cup {"sellers" : x \in {s} \ {0}}
    IN  IF orders.exc # "none" THEN [exc |-> orders.exc, cleaned |-> <<>>]
        ELSE [exc |-> "none",
              cleaned |-> [name \in tables |->
                  CASE name = "products"    -> ProductsCleaner_clean(raw[p].df)
                    [] name = "orders"      -> orders.df
                    [] name = "order_items" -> OrderItemsCleaner_clean(raw[t].df)
                    [] name = "customers"   ->
                          IF "user_id" \in raw[c].df.columns
                             /\ "customer_id" \notin raw[c].df.columns
                          THEN Rename(raw[c].df, "user_id", "customer_id")
                          ELSE raw[c].df
                    [] name = "sellers"     -> raw[s].df]]

----------------------------------------------------------------------------
(* The validation engine *)

\* ValidationSeverity
Severities == {"info", "warning", "error", "critical"}

\* Optional[float] = None: a bound that is not given
NoBound == -1

\* ValidationResult(rule_name, passed, severity, message, details); the
\* message is not modelled, details carries the counts the checks report
ValidationResult(rule_name, passed, severity, details) ==
    [rule |-> rule_name, passed |-> passed, severity |-> severity, details |-> details]

\* an exception that leaves a check function
Raises(exc) == [raised |-> exc]

\* df[column].isnull().sum()
NullCount(d, column) ==
    Cardinality({i \in 1..Len(d.rows) : d.rows[i][column] = Null})

\* a null check without the "column not in df.columns" guard: df[column]
\* raises KeyError
null_check_unguarded(d, column, max_null_pct, severity) ==
    IF column \notin d.columns
    THEN Raises("KeyError")
    ELSE ValidationResult("null_check_" \o column,
                          /\ Len(d.rows) > 0
                          /\ NullCount(d, column) * 100 <= max_null_pct * Len(d.rows),
                          severity, [column |-> column])

\* the check add_null_check registers; max_null_pct in percent.
\* On a dataset without rows the null fraction is NaN and NaN <= threshold is false.
null_check(d, column, max_null_pct, severity) ==
    IF column \notin d.columns
    THEN ValidationResult("null_check_" \o column, FALSE, severity, [column |-> column])
    ELSE ValidationResult("null_check_" \o column,
                          /\ Len(d.rows) > 0
                          /\ NullCount(d, column) * 100 <= max_null_pct * Len(d.rows),
                          severity, [column |-> column])

\* str(df[col].dtype) of a column of integers: a missing value makes the
\* column float64, a column without rows is object
dtype(d, column) ==
    IF Len(d.rows) = 0 THEN "object"
    ELSE IF NullCount(d, column) > 0 THEN "float64"
    ELSE "int64"

\* the check add_schema_check registers; expected_schema is a set of
\* <<column, dtype>> pairs, mismatches the set of columns that do not match
schema_check(d, expected_schema, severity) ==
    LET mismatches == {e[1] : e \in {x \in expected_schema :
                                        \/ x[1] \notin d.columns
                                        \/ dtype(d, x[1]) # x[2]}}
    IN  ValidationResult("schema_check", mismatches = {}, severity,
                         [mismatches |-> mismatches])

\* a uniqueness check that counts the rows of repeated keys, first
\* occurrences included: df.duplicated(subset, keep=False)
unique_check_keep_false(d, columns, name, severity) ==
    LET existing_cols == columns \cap d.columns
        same(i, j) == \A c \in existing_cols : d.rows[i][c] = d.rows[j][c]
        duplicate_count ==
            Cardinality({i \in 1..Len(d.rows) :
                            \E j \in 1..Len(d.rows) : j # i /\ same(i, j)})
    IN  IF existing_cols = {}
        THEN ValidationResult("unique_check_" \o name, FALSE, severity,
                              [columns |-> columns])
        ELSE ValidationResult("unique_check_" \o name, duplicate_count = 0, severity,
                              [columns |-> existing_cols,
                               duplicate_count |-> duplicate_count])

\* the check add_unique_check registers; name is ','.join(columns).
\* df.duplicated(subset) marks every row that repeats an earlier one.
unique_check(d, columns, name, severity) ==
    LET existing_cols == columns \cap d.columns
        same(i, j) == \A c \in existing_cols : d.rows[i][c] = d.rows[j][c]
        duplicate_count ==
            Cardinality({i \in 1..Len(d.rows) : \E j \in 1..(i - 1) : same(i, j)})
    IN  IF existing_cols = {}
        THEN ValidationResult("unique_check_" \o name, FALSE, severity,
                              [columns |-> columns])
        ELSE ValidationResult("unique_check_" \o name, duplicate_count = 0, severity,
                              [columns |-> existing_cols,
                               duplicate_count |-> duplicate_count])

\* a range check with strict bounds: a value equal to a bound is a violation
range_check_exclusive(d, column, min_value, max_value, severity) ==
    LET below == IF min_value = NoBound THEN 0
                 ELSE Cardinality({i \in 1..Len(d.rows) :
                          d.rows[i][column] # Null /\ d.rows[i][column] <= min_value})
        above == IF max_value = NoBound THEN 0
                 ELSE Cardinality({i \in 1..Len(d.rows) :
                          d.rows[i][column] # Null /\ d.rows[i][column] >= max_value})
    IN  IF column \notin d.columns
        THEN ValidationResult("range_check_" \o column, FALSE, severity,
                              [column |-> column])
        ELSE ValidationResult("range_check_" \o column, below + above = 0, severity,
                              [column |-> column, violations |-> below + above])

\* the check add_range_check registers; a missing value compares false with
\* every bound
range_check(d, column, min_value, max_value, severity) ==
    LET below == IF min_value = NoBound THEN 0
                 ELSE Cardinality({i \in 1..Len(d.rows) :
                          d.rows[i][column] # Null /\ d.rows[i][column] < min_value})
        above == IF max_value = NoBound THEN 0
                 ELSE Cardinality({i \in 1..Len(d.rows) :
                          d.rows[i][column] # Null /\ d.rows[i][column] > max_value})
    IN  IF column \notin d.columns
        THEN ValidationResult("range_check_" \o column, FALSE, severity,
                              [column |-> column])
        ELSE ValidationResult("range_check_" \o column, below + above = 0, severity,
                              [column |-> column, violations |-> below + above])

\* a business rule whose handler keeps the severity the rule was declared with
business_rule_declared_severity(d, rule_name, columns, min_value, severity) ==
    LET violations == Cardinality({i \in 1..Len(d.rows) :
                          \E c \in columns : \/ d.rows[i][c] = Null
                                             \/ d.rows[i][c] < min_value})
    IN  IF ~(columns \subseteq d.columns)
        THEN ValidationResult("business_rule_" \o rule_name, FALSE, severity,
                              [error |-> "KeyError"])
        ELSE ValidationResult("business_rule_" \o rule_name, violations = 0, severity,
                              [rule |-> rule_name, violations |-> violations])

\* the check add_business_rule registers, for the caller's condition
\* "lambda df: (df[columns] >= min_value).all(axis=1)": the condition raises
\* KeyError when the dataset lacks one of the columns, and is false for a
\* missing value.  Whatever the condition raises is caught and becomes a
\* failed result of severity ERROR.
business_rule(d, rule_name, columns, min_value, severity) ==
    LET violations == Cardinality({i \in 1..Len(d.rows) :
                          \E c \in columns : \/ d.rows[i][c] = Null
                                             \/ d.rows[i][c] < min_value})
    IN  IF ~(columns \subseteq d.columns)
        THEN ValidationResult("business_rule_" \o rule_name, FALSE, "error",
                              [error |-> "KeyError"])
        ELSE ValidationResult("business_rule_" \o rule_name, violations = 0, severity,
                              [rule |-> rule_name, violations |-> violations])

\* DataValidator(table_name): the table name and the registered checks; a
\* check is the closure's captured arguments
DataValidator(table_name) == [table_name |-> table_name, checks |-> <<>>]

Check(kind, column, columns, lo, hi, schema, severity) ==
    [kind |-> kind, column |-> column, columns |-> columns, lo |-> lo, hi |-> hi,
     schema |-> schema, severity |-> severity]

add_null_check(v, column, max_null_pct, severity) ==
    [v EXCEPT !.checks =
        Append(@, Check("null", column, {column}, max_null_pct, NoBound, {}, severity))]

add_schema_check(v, expected_schema, severity) ==
    [v EXCEPT !.checks =
        Append(@, Check("schema", "", {}, NoBound, NoBound, expected_schema, severity))]

add_unique_check(v, columns, name, severity) ==
    [v EXCEPT !.checks =
        Append(@, Check("unique", name, columns, NoBound, NoBound, {}, severity))]

add_range_check(v, column, min_value, max_value, severity) ==
    [v EXCEPT !.checks =
        Append(@, Check("range", column, {column}, min_value, max_value, {}, severity))]

add_business_rule(v, rule_name, columns, min_value, severity) ==
    [v EXCEPT !.checks =
        Append(@, Check("business", rule_name, columns, min_value, NoBound, {}, severity))]

\* check_func(df) for a registered check
check_func(c, d) ==
    CASE c.kind = "null"   -> null_check(d, c.column, c.lo, c.severity)
      [] c.kind = "schema" -> schema_check(d, c.schema, c.severity)
      [] c.kind = "unique" -> unique_check(d, c.columns, c.column, c.severity)
      [] c.kind = "range"  -> range_check(d, c.column, c.lo, c.hi, c.severity)
      [] c.kind = "business" -> business_rule(d, c.column, c.columns, c.lo, c.severity)

RECURSIVE validate_loop(_, _, _, _)
\* for check_func in self._checks: result = check_func(df);
\* report.results.append(result).  acc.evaluated lists the checks called.
validate_loop(checks_, d, i, acc) ==
    IF i > Len(checks_)
    THEN acc
    ELSE LET result == check_func(checks_[i], d)
             called == [acc EXCEPT !.evaluated = Append(@, i)]
         IN  IF "raised" \in DOMAIN result
             THEN [called EXCEPT !.exc = result.raised]
             ELSE validate_loop(checks_, d, i + 1,
                                [called EXCEPT !.results = Append(@, result)])

\* ValidationReport(table_name, row_count, results)
ValidationReport(table_name, row_count, res) ==
    [table_name |-> table_name, row_count |-> row_count, results |-> res]

NoResults == [exc |-> "none", results |-> <<>>, evaluated |-> <<>>]

\* a validate that returns at the first failed result
validate_short_circuit(v, d) ==
    LET acc   == validate_loop(v.checks, d, 1, NoResults)
        fails == {i \in 1..Len(acc.results) : ~acc.results[i].passed}
        stop  == IF fails = {} THEN Len(acc.results)
                 ELSE CHOOSE i \in fails : \A j \in fails : i <= j
    IN  [exc |-> acc.exc,
         evaluated |-> SubSeq(acc.evaluated, 1, stop),
         validator |-> v,
         df |-> d,
         report |-> ValidationReport(v.table_name, Len(d.rows),
                                     SubSeq(acc.results, 1, stop))]

\* a validate that takes its checks off the list as it runs them:
\* "while self._checks: check_func = self._checks.pop(0)"
validate_consumes_checks(v, d) ==
    LET acc == validate_loop(v.checks, d, 1, NoResults)
    IN  [exc |-> acc.exc,
         evaluated |-> acc.evaluated,
         validator |-> [v EXCEPT !.checks = <<>>],
         df |-> d,
         report |-> ValidationReport(v.table_name, Len(d.rows), acc.results)]

\* DataValidator.validate(df): what it raises, the checks it called, the
\* validator and the dataset as the call leaves them, and the report.
\* No statement of validate or of a check assigns to df or to self._checks.
DataValidator_validate(v, d) ==
    LET acc == validate_loop(v.checks, d, 1, NoResults)
    IN  [exc |-> acc.exc,
         evaluated |-> acc.evaluated,
         validator |-> v,
         df |-> d,
         report |-> ValidationReport(v.table_name, Len(d.rows), acc.results)]

\* create_orders_validator()
create_orders_validator ==
    add_unique_check(
        add_null_check(
            add_null_check(
                add_null_check(DataValidator("orders"), "order_id", 0, "critical"),
                "customer_id", 0, "error"),
            "order_purchase_timestamp", 0, "error"),
        {"order_id"}, "order_id", "error")

\* create_order_items_validator()
create_order_items_validator ==
    add_range_check(
        add_range_check(
            add_null_check(
                add_null_check(DataValidator("order_items"), "order_id", 0, "critical"),
                "product_id", 0, "error"),
            "price", 0, NoBound, "warning"),
        "freight_value", 0, NoBound, "warning")

\* self.orders_validator.validate(df).results
orders_validator(d) == DataValidator_validate(create_orders_validator, d).report.results

\* self.order_items_validator.validate(df).results
order_items_validator(d) ==
    DataValidator_validate(create_order_items_validator, d).report.results

\* ValidationReport.passed
passed(res) == \A i \in 1..Len(res) : res[i].passed

\* any critical result counts, passed or not
has_critical_failures_any_critical(res) ==
    \E i \in 1..Len(res) : res[i].severity = "critical"

\* ValidationReport.has_critical_failures
has_critical_failures(res) ==
    \E i \in 1..Len(res) : ~res[i].passed /\ res[i].severity = "critical"

\* ValidationReport.error_count
error_count(res) == Cardinality({i \in 1..Len(res) : ~res[i].passed})

\* DataValidator.validate(df) followed by ValidationReport.to_dict()
to_dict(table_name, d, res) ==
    [table_name  |-> table_name,
     row_count   |-> Len(d.rows),
     passed      |-> passed(res),
     error_count |-> error_count(res),
     has_critical_failures |-> has_critical_failures(res),
     results     |-> res]

\* ETLPipeline._validate(cleaned_data): table name -> report dict
_validate(cleaned) ==
    [name \in DOMAIN cleaned \cap {"orders", "order_items"} |->
        IF name = "orders"
        THEN to_dict("orders", cleaned[name], orders_validator(cleaned[name]))
        ELSE to_dict("order_items", cleaned[name], order_items_validator(cleaned[name]))]

\* only the report of orders is looked at
FirstCriticalOrdersOnly(reports) ==
    IF "orders" \in DOMAIN reports /\ reports["orders"].has_critical_failures
    THEN "orders"
    ELSE "<none>"

\* for table, report in validation_results.items(): the first table, in
\* insertion order (orders, order_items), whose report has a critical failure
FirstCritical(reports) ==
    IF "orders" \in DOMAIN reports /\ reports["orders"].has_critical_failures
    THEN "orders"
    ELSE IF "order_items" \in DOMAIN reports
            /\ reports["order_items"].has_critical_failures
    THEN "order_items"
    ELSE "<none>"

----------------------------------------------------------------------------
(* ValidateSpec: one DataValidator object; the caller registers up to      *)
(* MaxChecks checks with the add_* methods, then calls validate on its     *)
(* dataset.                                                                *)

MaxChecks == 2     \* checks registered with one validator

\* the caller's dataset: orders with or without a price column
ValidatedFrames ==
    {Dataset({"order_id", "price"}, r) :
        r \in SeqsUpTo([order_id : {Null, 1}, price : {Null, 1, 2}], MaxRows)}
    \cup
    {Dataset({"order_id"}, r) : r \in SeqsUpTo([order_id : {Null, 1}], MaxRows)}

\* the caller's add_* calls: <<column, max_null_pct in percent, severity>>,
\* <<expected_schema, severity>>, <<columns, ','.join(columns), severity>>,
\* <<column, min_value, max_value, severity>>,
\* <<rule_name, columns of the condition, min_value, severity>>
NullCheckArgs   == {<<"order_id", 0, "critical">>, <<"price", 50, "error">>}
SchemaCheckArgs == {<<{<<"order_id", "int64">>, <<"price", "int64">>}, "error">>}
UniqueCheckArgs == {<<{"order_id", "price"}, "order_id,price", "warning">>,
                    <<{"price"}, "price", "info">>}
RangeCheckArgs  == {<<"price", 2, NoBound, "warning">>, <<"price", 1, 1, "critical">>}
BusinessRuleArgs == {<<"price_min", {"price"}, 1, "critical">>}

ValidateInit ==
    /\ cfg \in {c \in SqliteConfigs : c.batch_size = 1 /\ c.upsert_enabled}
    /\ db = [name \in TableNames |-> NoTable]
    /\ clock = 1
    /\ df = EmptyFrame
    /\ call = NoCall
    /\ ncalls = 0
    /\ IdleRun
    /\ validator = DataValidator("orders")
    /\ frame \in ValidatedFrames
    /\ validation = NoValidation

\* a caller registers its checks before it validates
Registering ==
    /\ ~validation.called
    /\ Len(validator.checks) < MaxChecks
    /\ UNCHANGED <<db, cfg, clock, frame, validation>>
    /\ UNCHANGED loadVars
    /\ UNCHANGED runVars

AddNullCheck(column, max_null_pct, severity) ==
    /\ Registering
    /\ validator' = add_null_check(validator, column, max_null_pct, severity)

AddSchemaCheck(expected_schema, severity) ==
    /\ Registering
    /\ validator' = add_schema_check(validator, expected_schema, severity)

AddUniqueCheck(columns, name, severity) ==
    /\ Registering
    /\ validator' = add_unique_check(validator, columns, name, severity)

AddRangeCheck(column, min_value, max_value, severity) ==
    /\ Registering
    /\ validator' = add_range_check(validator, column, min_value, max_value, severity)

AddBusinessRule(rule_name, columns, min_value, severity) ==
    /\ Registering
    /\ validator' = add_business_rule(validator, rule_name, columns, min_value, severity)

\* report = validator.validate(frame); report.to_dict()
Validate_frame ==
    /\ LET r == DataValidator_validate(validator, frame)
       IN  /\ validator' = r.validator
           /\ frame' = r.df
           /\ validation' =
                 [called |-> TRUE, validator |-> validator, df |-> frame,
                  exc |-> r.exc, evaluated |-> r.evaluated, report |-> r.report,
                  dict |-> to_dict(r.report.table_name, frame, r.report.results)]
    /\ UNCHANGED <<db, cfg, clock>>
    /\ UNCHANGED loadVars
    /\ UNCHANGED runVars

ValidateNext ==
    \/ \E a \in NullCheckArgs : AddNullCheck(a[1], a[2], a[3])
    \/ \E a \in SchemaCheckArgs : AddSchemaCheck(a[1], a[2])
    \/ \E a \in UniqueCheckArgs : AddUniqueCheck(a[1], a[2], a[3])
    \/ \E a \in RangeCheckArgs : AddRangeCheck(a[1], a[2], a[3], a[4])
    \/ \E a \in BusinessRuleArgs : AddBusinessRule(a[1], a[2], a[3], a[4])
    \/ Validate_frame

ValidateSpec == ValidateInit /\ [][ValidateNext]_vars

----------------------------------------------------------------------------
(* Spec: ETLPipeline.run(source, validate), invoked up to MaxRuns times on  *)
(* a database that starts without tables, against one external content.    *)

Sources == {"api", "csv", "both"}

\* the Fake Store API: one product, one user, and either no cart or one cart
\* with two products (fetch_carts yields one row per product of a cart)
ApiOrders ==
    {EmptyFrame,
     Dataset({"order_id", "customer_id", "order_date"},
             <<[order_id |-> 1, customer_id |-> 1, order_date |-> Utc],
               [order_id |-> 1, customer_id |-> 1, order_date |-> Utc]>>)}

ApiContents ==
    [products : {Dataset({"id", "title"}, <<[id |-> 1, title |-> 1]>>)},
     orders   : ApiOrders,
     users    : {Dataset({"user_id", "city"}, <<[user_id |-> 1, city |-> 1]>>)}]

OrdersRow(order_id, ts) ==
    [order_id |-> order_id, customer_id |-> 1, order_purchase_timestamp |-> ts]

\* olist_orders_dataset.csv: missing, one order, one row without order_id,
\* two orders whose timestamps carry different UTC offsets
CsvOrders ==
    {Absent} \cup
    {Dataset({"order_id", "customer_id", "order_purchase_timestamp"}, r) :
        r \in {<<OrdersRow(1, Utc)>>, <<OrdersRow(Null, Utc)>>,
               <<OrdersRow(1, Utc), OrdersRow(2, Offset)>>}}

\* olist_order_items_dataset.csv: missing, one item, one item without order_id
CsvOrderItems ==
    {Absent} \cup
    {Dataset({"order_id", "product_id"}, <<[order_id |-> o, product_id |-> 1]>>) :
        o \in {1, Null}}

\* olist_customers_dataset.csv: missing, one customer, one customer twice
CsvCustomers ==
    {Absent} \cup
    {Dataset({"customer_id", "city"}, r) :
        r \in {<<[customer_id |-> 1, city |-> 1]>>,
               <<[customer_id |-> 1, city |-> 1], [customer_id |-> 1, city |-> 2]>>}}

\* olist_sellers_dataset.csv: missing, one seller, one seller twice
CsvSellers ==
    {Absent} \cup
    {Dataset({"seller_id", "seller_city"}, r) :
        r \in {<<[seller_id |-> 1, seller_city |-> 1]>>,
               <<[seller_id |-> 1, seller_city |-> 1],
                 [seller_id |-> 1, seller_city |-> 2]>>}}

CsvProducts ==
    {Dataset({"product_id", "title"}, <<[product_id |-> 1, title |-> 1]>>)}

CsvFiles(orders, order_items, custs, sellers, products) ==
    [name \in {OLIST_FILES[i] : i \in 1..Len(OLIST_FILES)} |->
        CASE name = "orders"      -> orders
          [] name = "order_items" -> order_items
          [] name = "customers"   -> custs
          [] name = "sellers"     -> sellers
          [] name = "products"    -> products
          [] OTHER                -> Absent]

\* customers and sellers files: both there or both missing, at most one of
\* them with a repeated row
CsvParties ==
    {cs \in CsvCustomers \X CsvSellers :
        \/ cs[1] = Absent /\ cs[2] = Absent
        \/ /\ cs[1] # Absent /\ cs[2] # Absent
           /\ Len(cs[1].rows) = 1 \/ Len(cs[2].rows) = 1}

\* What is outside the program: the API's answers and the Olist directory.
\* Either there is no Olist directory, or the API has one cart and the
\* directory holds some combination of the files above.
Contents ==
    {[api |-> a, olist_exists |-> FALSE,
      csv |-> CsvFiles(Absent, Absent, Absent, Absent, Absent)] : a \in ApiContents}
    \cup
    {[api |-> a, olist_exists |-> TRUE, csv |-> CsvFiles(o, t, cs[1], cs[2], p)] :
        a \in {x \in ApiContents : x.orders # EmptyFrame},
        o \in CsvOrders, t \in CsvOrderItems, cs \in CsvParties, p \in CsvProducts}

\* the loader the pipeline constructs: SQLite, every dataset within one batch
PipelineConfigs == {c \in SqliteConfigs : c.batch_size = 2}

Init ==
    /\ cfg \in PipelineConfigs
    /\ db = [name \in TableNames |-> NoTable]
    /\ clock = 1
    /\ df = EmptyFrame
    /\ call = NoCall
    /\ ncalls = 0
    /\ pc = "idle"
    /\ external \in Contents
    /\ args = <<>>
    /\ raw_data = <<>>
    /\ cleaned_data = <<>>
    /\ results = <<>>
    /\ load_idx = 0
    /\ load_counts = <<>>
    /\ trace = <<>>
    /\ loader_calls = <<>>
    /\ db_at_start = <<>>
    /\ last_run = NoRun
    /\ runs = 0
    /\ finished = 0
    /\ raised = "none"
    /\ etl_run_log = <<>>
    /\ IdleValidator

\* an except clause without "raise": run() goes on to return the summary
ExceptReturns(res, e) ==
    /\ results' = [res EXCEPT !.errors = Append(@, e), !.status = "failed"]
    /\ pc' = "done"
    /\ finished' = finished + 1
    /\ raised' = "none"

\* an except clause that wraps the error: "raise PipelineError(...) from e"
ExceptWraps(res, e) ==
    /\ results' = [res EXCEPT !.errors = Append(@, e), !.status = "failed"]
    /\ pc' = "failed"
    /\ finished' = finished + 1
    /\ raised' = "PipelineError"

\* the except clause of run(): the error is recorded, the status set, the
\* exception re-raised
Except(res, e) ==
    /\ results' = [res EXCEPT !.errors = Append(@, e), !.status = "failed"]
    /\ pc' = "failed"
    /\ finished' = finished + 1
    /\ raised' = e

\* pipeline.run(source=..., validate=...) is called; a caller repeats its
\* call with the arguments of its first call
Run(source, validate) ==
    /\ pc \in {"idle", "done", "failed"}
    /\ runs < MaxRuns
    /\ runs > 0 => source = args.source /\ validate = args.validate
    /\ runs' = runs + 1
    /\ args' = [source |-> source, validate |-> validate]
    /\ results' = [source |-> source, tables |-> <<>>, validation_reports |-> <<>>,
                   errors |-> <<>>, status |-> "<unset>"]
    /\ last_run' = IF pc = "idle" THEN NoRun ELSE [status |-> pc, args |-> args]
    /\ db_at_start' = db
    /\ raw_data' = <<>>
    /\ cleaned_data' = <<>>
    /\ load_idx' = 0
    /\ load_counts' = <<>>
    /\ trace' = <<>>
    /\ loader_calls' = <<>>
    /\ pc' = "schema"
    /\ raised' = "none"
    /\ UNCHANGED <<db, cfg, clock, external, finished, etl_run_log>>
    /\ UNCHANGED loadVars
    /\ UNCHANGED valVars

\* the tables whose CREATE TABLE statement the database may reject
RejectedTables == {{}, {"sellers"}}

\* self.db_loader.initialize_schema(): CREATE TABLE IF NOT EXISTS for every
\* table; engine.begin() raises when the database cannot be opened; a
\* statement the database rejects (SQLAlchemyError) is logged as a warning
\* and the loop goes on
InitializeSchema(conn_ok, rejected) ==
    /\ pc = "schema"
    /\ IF conn_ok
       THEN /\ db' = [name \in TableNames |->
                         IF db[name].exists \/ name \in rejected
                         THEN db[name]
                         ELSE SchemaTable(name, <<>>)]
            /\ pc' = "extract"
            /\ UNCHANGED <<results, finished, raised>>
       ELSE /\ Except(results, "OperationalError")
            /\ UNCHANGED db
    /\ UNCHANGED <<cfg, clock, external, args, raw_data, cleaned_data, load_idx,
                   load_counts, trace, loader_calls, db_at_start, last_run, runs,
                   etl_run_log>>
    /\ UNCHANGED loadVars
    /\ UNCHANGED valVars

\* raw_data = self._extract(source, save_raw)
Extract(api_ok) ==
    /\ pc = "extract"
    /\ trace' = Append(trace, "EXTRACT")
    /\ LET r == _extract(args.source, external, api_ok)
       IN  IF r.exc = "none"
           THEN /\ raw_data' = r.data
                /\ pc' = "transform"
                /\ UNCHANGED <<results, finished, raised>>
           ELSE /\ Except(results, r.exc)
                /\ UNCHANGED raw_data
    /\ UNCHANGED <<db, cfg, clock, external, args, cleaned_data, load_idx,
                   load_counts, loader_calls, db_at_start, last_run, runs,
                   etl_run_log>>
    /\ UNCHANGED loadVars
    /\ UNCHANGED valVars

\* cleaned_data = self._transform(raw_data)
Transform ==
    /\ pc = "transform"
    /\ trace' = Append(trace, "TRANSFORM")
    /\ LET r == _transform(raw_data)
       IN  IF r.exc = "none"
           THEN /\ cleaned_data' = r.cleaned
                /\ pc' = IF args.validate THEN "validate" ELSE "load"
                /\ UNCHANGED <<results, finished, raised>>
           ELSE /\ Except(results, r.exc)
                /\ UNCHANGED cleaned_data
    /\ UNCHANGED <<db, cfg, clock, external, args, raw_data, load_idx,
                   load_counts, loader_calls, db_at_start, last_run, runs,
                   etl_run_log>>
    /\ UNCHANGED loadVars
    /\ UNCHANGED valVars

\* if validate: the reports are stored in the summary, then the first
\* critical failure raises ValueError
Validate ==
    /\ pc = "validate"
    /\ trace' = Append(trace, "VALIDATE")
    /\ LET reports  == _validate(cleaned_data)
           reported == [results EXCEPT !.validation_reports = reports]
       IN  IF FirstCritical(reports) = "<none>"
           THEN /\ results' = reported
                /\ pc' = "load"
                /\ UNCHANGED <<finished, raised>>
           ELSE Except(reported,
                       "Critical validation failure in " \o FirstCritical(reports))
    /\ UNCHANGED <<db, cfg, clock, external, args, raw_data, cleaned_data, load_idx,
                   load_counts, loader_calls, db_at_start, last_run, runs,
                   etl_run_log>>
    /\ UNCHANGED loadVars
    /\ UNCHANGED valVars

\* the order in which _transform produces the cleaned datasets
load_order_as_cleaned == <<"products", "orders", "order_items", "customers", "sellers">>

\* load_order in _load
load_order == <<"customers", "sellers", "products", "orders", "order_items">>

\* getattr(self.db_loader, f"load_{table}")(cleaned_data[table])
loader_method(table, tbl, d, c, now) ==
    CASE table = "customers"   -> load_customers(tbl, d, c, now, TRUE)
      [] table = "sellers"     -> load_sellers(tbl, d, c, now, TRUE)
      [] table = "products"    -> load_products(tbl, d, c, now, TRUE)
      [] table = "orders"      -> load_orders(tbl, d, c, now, TRUE)
      [] table = "order_items" -> load_order_items(tbl, d, c, now, TRUE)

\* a load that belongs to a transaction of the whole run: a failed loader
\* call takes the database back to what it was when run() was called
AfterLoadRollsBack(d, table, r) ==
    IF r.exc = "none" THEN [d EXCEPT ![table] = r.tbl] ELSE db_at_start

\* the database after a loader call: the call wrote (and committed) to its
\* own table; _load has no transaction of its own and undoes nothing
AfterLoad(d, table, r) == [d EXCEPT ![table] = r.tbl]

\* self._load(cleaned_data) is entered
Load ==
    /\ pc = "load"
    /\ load_idx = 0
    /\ trace' = Append(trace, "LOAD")
    /\ load_counts' = <<>>
    /\ load_idx' = 1
    /\ UNCHANGED <<db, cfg, clock, pc, external, args, raw_data, cleaned_data,
                   results, loader_calls, db_at_start, last_run, runs, finished,
                   raised, etl_run_log>>
    /\ UNCHANGED loadVars
    /\ UNCHANGED valVars

\* one iteration of "for table in load_order"
LoadTable ==
    /\ pc = "load"
    /\ load_idx \in 1..Len(load_order)
    /\ LET table == load_order[load_idx]
       IN  IF table \in DOMAIN cleaned_data /\ ~IsEmpty(cleaned_data[table])
           THEN LET now == clock + 1
                    r   == loader_method(table, db[table], cleaned_data[table], cfg, now)
                IN  /\ loader_calls' = Append(loader_calls, table)
                    /\ clock' = now
                    /\ db' = AfterLoad(db, table, r)
                    /\ cleaned_data' = [cleaned_data EXCEPT ![table] = r.df]
                    /\ IF r.exc = "none"
                       THEN /\ load_counts' = load_counts @@ (table :> r.ret)
                            /\ load_idx' = load_idx + 1
                            /\ UNCHANGED <<pc, results, finished, raised>>
                       ELSE /\ Except(results, r.exc)
                            /\ UNCHANGED <<load_counts, load_idx>>
           ELSE /\ load_idx' = load_idx + 1
                /\ UNCHANGED <<db, clock, pc, results, finished, raised,
                               load_counts, loader_calls, cleaned_data>>
    /\ UNCHANGED <<cfg, external, args, raw_data, trace, db_at_start,
                   last_run, runs, etl_run_log>>
    /\ UNCHANGED loadVars
    /\ UNCHANGED valVars

\* _load returns: results["tables"] = load_results, status "completed",
\* run() returns results
Return ==
    /\ pc = "load"
    /\ load_idx = Len(load_order) + 1
    /\ results' = [results EXCEPT !.tables = load_counts, !.status = "completed"]
    /\ pc' = "done"
    /\ finished' = finished + 1
    /\ UNCHANGED <<db, cfg, clock, external, args, raw_data, cleaned_data, load_idx,
                   load_counts, trace, loader_calls, db_at_start, last_run, runs,
                   raised, etl_run_log>>
    /\ UNCHANGED loadVars
    /\ UNCHANGED valVars

Next ==
    \/ \E source \in Sources, validate \in BOOLEAN : Run(source, validate)
    \/ \E conn_ok \in BOOLEAN, rejected \in RejectedTables :
          InitializeSchema(conn_ok, rejected)
    \/ \E api_ok \in BOOLEAN : Extract(api_ok)
    \/ Transform
    \/ Validate
    \/ Load
    \/ LoadTable
    \/ Return

Spec == Init /\ [][Next]_vars

----------------------------------------------------------------------------
(* Properties of ETLPipeline.run, checked under Spec *)

Range(s) == {s[i] : i \in 1..Len(s)}

\* s lists members of order, each at most once, in the order of order
InOrder(s, order) ==
    /\ Range(s) \subseteq Range(order)
    /\ \A i, j \in 1..Len(s) :
          i < j => \E a, b \in 1..Len(order) : a < b /\ order[a] = s[i] /\ order[b] = s[j]

\* the rows of every table as they are now / as they were when run() was called
RowsNow   == [name \in TableNames |-> db[name].rows]
RowsAtStart == [name \in TableNames |-> db_at_start[name].rows]

\* the summary of the current run holds a report with a critical failure
CriticalReported ==
    /\ runs > 0
    /\ \E t \in DOMAIN results.validation_reports :
          results.validation_reports[t].has_critical_failures

\* C1: in a run with validation enabled, once the report of any table has
\* has_critical_failures, the run has raised, the loader has not been invoked
\* for any table, and no table holds a row it did not hold when the run began.
C1_CriticalStopsBeforeLoad ==
    CriticalReported
    => /\ args.validate
       /\ pc = "failed"
       /\ results.status = "failed"
       /\ loader_calls = <<>>
       /\ "LOAD" \notin Range(trace)
       /\ RowsNow = RowsAtStart

\* order_items has a critical failure, orders has none, and customers,
\* sellers, products and orders had rows to load
C1_Witness ==
    /\ CriticalReported
    /\ pc = "failed"
    /\ {"orders", "order_items"} \subseteq DOMAIN results.validation_reports
    /\ results.validation_reports["order_items"].has_critical_failures
    /\ ~results.validation_reports["orders"].has_critical_failures
    /\ \A t \in {"customers", "sellers", "products", "orders"} :
          t \in DOMAIN cleaned_data /\ Len(cleaned_data[t].rows) > 0
    /\ loader_calls = <<>>

Phases == <<"EXTRACT", "TRANSFORM", "VALIDATE", "LOAD">>

C2_Invariant ==
    /\ InOrder(trace, Phases)
    /\ finished \in {runs - 1, runs} \cap Nat
    /\ (runs > 0 /\ finished = runs) <=> pc \in {"done", "failed"}
    /\ pc = "done" => /\ results.status = "completed"
                      /\ results.errors = <<>>
                      /\ trace[Len(trace)] = "LOAD"
    /\ pc = "failed" => /\ results.status = "failed"
                        /\ Len(results.errors) = 1
    /\ pc \notin {"idle", "done", "failed"} => results.status = "<unset>"

\* a step taken after FAILED is entered is the next call of run()
C2_Step ==
    pc = "failed" => pc' = "schema" /\ runs' = runs + 1 /\ trace' = <<>> /\ db' = db

\* C2: a run enters the phases EXTRACT, TRANSFORM, VALIDATE, LOAD in that
\* order, each at most once; it ends exactly once, either DONE with status
\* completed or FAILED with the error recorded; nothing of the run executes
\* after FAILED is entered.  (That FAILED is entered from each phase is shown
\* by C2_Witness and the three FailedIn predicates that follow it.)
C2_PhasesInOrder == [](C2_Invariant) /\ [][C2_Step]_vars

FailedIn(phase) ==
    /\ pc = "failed"
    /\ trace # <<>>
    /\ trace[Len(trace)] = phase

\* the run failed in LOAD, after EXTRACT, TRANSFORM and VALIDATE
C2_Witness ==
    /\ FailedIn("LOAD")
    /\ trace = Phases

C2_FailedInExtract   == FailedIn("EXTRACT")
C2_FailedInTransform == FailedIn("TRANSFORM")
C2_FailedInValidate  == FailedIn("VALIDATE")

\* C3: in the LOAD phase the loader is invoked at most once per table, in the
\* order customers, sellers, products, orders, order_items; a table whose
\* cleaned dataset is missing or has no rows is not handed to the loader, has
\* no entry in the counts and adds nothing to the error list.
C3_LoadOrder ==
    /\ InOrder(loader_calls, <<"customers", "sellers", "products", "orders", "order_items">>)
    /\ \A t \in Range(loader_calls) :
          t \in DOMAIN cleaned_data /\ Len(cleaned_data[t].rows) > 0
    /\ DOMAIN load_counts \subseteq Range(loader_calls)
    /\ pc \in {"load", "done"} =>
          /\ \A t \in TableNames :
                (t \notin DOMAIN cleaned_data \/ Len(cleaned_data[t].rows) = 0)
                => t \notin Range(loader_calls) /\ t \notin DOMAIN load_counts
          /\ results.errors = <<>>
    /\ pc = "done" => results.tables = load_counts
    /\ (pc = "failed" /\ "LOAD" \in Range(trace)) =>
          results.errors \in {<<"IntegrityError">>, <<"OperationalError">>, <<"ValueError">>}

\* a completed run that loaded customers, sellers, products and order_items
\* and passed over orders, whose cleaned dataset had no rows
C3_Witness ==
    /\ pc = "done"
    /\ "orders" \in DOMAIN cleaned_data
    /\ Len(cleaned_data["orders"].rows) = 0
    /\ loader_calls = <<"customers", "sellers", "products", "order_items">>
    /\ DOMAIN load_counts = {"customers", "sellers", "products", "order_items"}
    /\ results.errors = <<>>

\* a table's rows without the bookkeeping columns
Content(rows) ==
    {[c \in DOMAIN rows[i] \ {"created_at", "updated_at"} |-> rows[i][c]] :
        i \in 1..Len(rows)}

\* C4: when run() completes for the second time in succession with the same
\* arguments and the same external content (upsert enabled, as configured by
\* default), every table holds the same set of rows (created_at and
\* updated_at aside) as after the first run.
C4_SecondRunSameRows ==
    (/\ pc = "done"
     /\ last_run.status = "done"
     /\ last_run.args = args
     /\ cfg.upsert_enabled)
    => \A name \in TableNames : Content(RowsNow[name]) = Content(RowsAtStart[name])

\* C10: when run() has returned or raised, the run log holds one record per
\* finished run, the last with the status of this run.
C10_OneRecordPerRun ==
    pc \in {"done", "failed"}
    => /\ Len(etl_run_log) = finished
       /\ etl_run_log[finished].status = results.status

\* C11: when run() has returned, the summary has status completed and an
\* empty errors list and nothing was raised; when run() has raised, the
\* summary has status failed, its errors list holds the message of the
\* exception the phase raised, and that exception is the one the caller gets.
C11_SummaryStatusAndErrors ==
    /\ pc = "done" => /\ results.status = "completed"
                      /\ results.errors = <<>>
                      /\ raised = "none"
    /\ pc = "failed" => /\ results.status = "failed"
                        /\ raised # "none"
                        /\ results.errors = <<raised>>
    /\ pc \notin {"done", "failed"} => raised = "none"

\* the validation phase raised ValueError for orders: the summary carries
\* the reports, the message and the status
C11_Witness ==
    /\ pc = "failed"
    /\ raised = "Critical validation failure in orders"
    /\ results.errors = <<raised>>
    /\ results.status = "failed"
    /\ "orders" \in DOMAIN results.validation_reports

\* the validation phase of this run has stored its reports, some result in
\* them failed, and no failed result is CRITICAL
AdvisoryFailuresOnly ==
    /\ runs > 0
    /\ args.validate
    /\ "VALIDATE" \in Range(trace)
    /\ \E t \in DOMAIN results.validation_reports :
          ~results.validation_reports[t].passed
    /\ \A t \in DOMAIN results.validation_reports :
          \A i \in 1..Len(results.validation_reports[t].results) :
              LET r == results.validation_reports[t].results[i]
              IN  ~r.passed => r.severity \in {"info", "warning", "error"}

\* C12: a run whose validation reports hold failures, none of them CRITICAL,
\* goes on to LOAD and does not fail; when it has ended, its status is
\* completed, every cleaned table with rows has been loaded and the failing
\* reports are in the summary.
C12_AdvisoryFailuresNeverStop ==
    AdvisoryFailuresOnly
    => /\ pc \in {"load", "done"}
       /\ pc = "done" =>
             /\ results.status = "completed"
             /\ \A t \in DOMAIN cleaned_data :
                   Len(cleaned_data[t].rows) > 0 => t \in DOMAIN results.tables
             /\ results.validation_reports = _validate(cleaned_data)

\* C20: a failure of initialize_schema (the database cannot be opened, or a
\* destination table cannot be created) and a failure of extraction each
\* take the run to FAILED at once: run() raises and no later phase executes.
C20_SchemaAndExtractFailuresFatal ==
    /\ pc \in {"extract", "transform", "validate", "load", "done"}
       => \A name \in TableNames : name \in Range(loader_calls) \/ db[name].exists
    /\ (pc = "failed" /\ trace = <<>>)
       => /\ raised = "OperationalError"
          /\ raw_data = <<>> /\ cleaned_data = <<>> /\ loader_calls = <<>>
          /\ RowsNow = RowsAtStart
    /\ FailedIn("EXTRACT")
       => /\ raised = "RequestException"
          /\ trace = <<"EXTRACT">>
          /\ cleaned_data = <<>> /\ loader_calls = <<>>
          /\ results.validation_reports = <<>>
          /\ RowsNow = RowsAtStart

\* the raw datasets whose key matches the entity's rule
Matching(entity) ==
    {i \in 1..Len(raw_data) :
        LET words == KeyWords(raw_data[i].key)
        IN  CASE entity = "products"    -> "products" \in words
              [] entity = "orders"      -> "orders" \in words /\ "items" \notin words
              [] entity = "order_items" -> "order_items" \in words \/ "items" \in words
              [] entity = "customers"   -> "users" \in words \/ "customers" \in words
              [] entity = "sellers"     -> "sellers" \in words}

Earliest(S) == CHOOSE i \in S : \A j \in S : i <= j

\* the entity's cleaner applied to a raw dataset
CleanedAs(entity, d) ==
    CASE entity = "products"    -> ProductsCleaner_clean(d)
      [] entity = "orders"      -> OrdersCleaner_clean(d).df
      [] entity = "order_items" -> OrderItemsCleaner_clean(d)
      [] entity = "customers"   -> IF "user_id" \in d.columns /\ "customer_id" \notin d.columns
                                   THEN Rename(d, "user_id", "customer_id")
                                   ELSE d
      [] entity = "sellers"     -> d

\* C28: after TRANSFORM, an entity has a cleaned dataset exactly when some
\* raw key matches its rule, and that dataset is the entity's cleaner
\* applied to the first matching raw dataset in extraction order; a key
\* that contains "items" is never the one the orders cleaner gets.
C28_FirstMatchingDatasetOnly ==
    pc \in {"validate", "load"}
    => \A entity \in TableNames :
          /\ entity \in DOMAIN cleaned_data <=> Matching(entity) # {}
          /\ Matching(entity) # {}
             => cleaned_data[entity]
                  = CleanedAs(entity, raw_data[Earliest(Matching(entity))].df)
          /\ \A i \in Matching("orders") : "items" \notin KeyWords(raw_data[i].key)

\* both the API and the CSV directory gave orders; the cleaned orders are
\* the API's, which differ from what the CSV orders would have given; the
\* directory has no sellers file and sellers is absent
C28_Witness ==
    /\ pc = "load"
    /\ Cardinality(Matching("orders")) = 2
    /\ raw_data[Earliest(Matching("orders"))].key = "orders_api"
    /\ \E j \in Matching("orders") :
          /\ raw_data[j].key = "orders_csv"
          /\ CleanedAs("orders", raw_data[j].df) # cleaned_data["orders"]
    /\ "order_items" \in DOMAIN cleaned_data
    /\ "sellers" \notin DOMAIN cleaned_data

\* the tables the loader was called for before the call that raised
EarlierTables == {loader_calls[i] : i \in 1..(Len(loader_calls) - 1)}

\* C29: when a loader call raises in LOAD, the run is FAILED with the
\* error recorded, the table of that call is the last the loader is called
\* for, and every table loaded before it keeps the rows its call wrote and
\* its count.
C29_LoadIsNotAtomic ==
    (FailedIn("LOAD") /\ loader_calls # <<>>)
    => LET T == loader_calls[Len(loader_calls)]
       IN  /\ results.status = "failed"
           /\ raised # "none"
           /\ T \notin DOMAIN load_counts
           /\ \A a, b \in 1..Len(load_order) :
                 (load_order[a] = T /\ a < b) => load_order[b] \notin Range(loader_calls)
           /\ \A E \in EarlierTables :
                 /\ E \in DOMAIN load_counts
                 /\ db[E].exists
                 /\ Len(db[E].rows) >= Len(RowsAtStart[E])
                 /\ load_counts[E] > 0 => db[E].rows # RowsAtStart[E]

\* the sellers call raised after customers was loaded: the customer is in
\* its table, and products, orders and order_items had rows but no call
C29_Witness ==
    /\ FailedIn("LOAD")
    /\ runs = 1
    /\ loader_calls = <<"customers", "sellers">>
    /\ Len(db["customers"].rows) = 1
    /\ load_counts = ("customers" :> 1)
    /\ Len(db["sellers"].rows) = 0
    /\ \A t \in {"products", "order_items"} :
          /\ t \in DOMAIN cleaned_data /\ Len(cleaned_data[t].rows) > 0
          /\ Len(db[t].rows) = 0

----------------------------------------------------------------------------
(* Properties of DataValidator.validate, checked under ValidateSpec *)

\* the checks registered when validate was called, the dataset it was
\* given, and the results of the report it returned
Checks     == validation.validator.checks
Given      == validation.df
ResultsOut == validation.report.results

\* check i was registered for a column (for all of its columns, if a
\* uniqueness check; for some column, if a schema check) the dataset lacks
ColumnAbsent(i) ==
    \/ Checks[i].kind \in {"null", "range"} /\ Checks[i].column \notin Given.columns
    \/ Checks[i].kind = "unique" /\ Checks[i].columns \cap Given.columns = {}
    \/ Checks[i].kind = "schema"
       /\ \E e \in Checks[i].schema : e[1] \notin Given.columns

\* C13: validate on a validator with n registered checks calls check 1, ...,
\* check n in that order, each once, whatever the earlier results were; the
\* report has n results, result i being what check i gives on the dataset,
\* and row_count is the number of rows of the dataset.
C13_EveryCheckOnceInOrder ==
    validation.called
    => /\ validation.evaluated = [i \in 1..Len(Checks) |-> i]
       /\ Len(ResultsOut) = Len(Checks)
       /\ \A i \in 1..Len(Checks) : ResultsOut[i] = check_func(Checks[i], Given)
       /\ validation.report.row_count = Len(Given.rows)

\* two checks were registered, the first failed and the second passed
C13_Witness ==
    /\ validation.called
    /\ Len(Checks) = 2
    /\ Len(ResultsOut) = 2
    /\ ~ResultsOut[1].passed
    /\ ResultsOut[2].passed
    /\ Len(Given.rows) > 0

\* C14: validate does not raise; a check registered for a column the
\* dataset lacks gives a failed result with the severity the check was
\* registered with, and every other check still has its result.
C14_AbsentColumnFails ==
    validation.called
    => /\ validation.exc = "none"
       /\ Len(ResultsOut) = Len(Checks)
       /\ \A i \in 1..Len(Checks) :
             ColumnAbsent(i) => /\ ~ResultsOut[i].passed
                                /\ ResultsOut[i].severity = Checks[i].severity

\* a null check on the absent column price failed with its severity, and
\* the check registered after it ran and passed
C14_Witness ==
    /\ validation.called
    /\ validation.exc = "none"
    /\ Len(Checks) = 2
    /\ Checks[1].kind = "null"
    /\ ColumnAbsent(1)
    /\ Len(ResultsOut) = 2
    /\ ~ResultsOut[1].passed
    /\ ResultsOut[1].severity = "error"
    /\ ResultsOut[2].passed

\* C15: a call of validate leaves the dataset and the validator's list of
\* registered checks as they were.
C15_ValidateLeavesInputs ==
    [][Validate_frame => (frame' = frame /\ validator' = validator)]_vars

\* validate was called on a dataset with rows and a validator with two
\* checks, one of which failed
C15_Witness ==
    /\ validation.called
    /\ Len(frame.rows) > 0
    /\ Len(validator.checks) = 2
    /\ \E i \in 1..Len(ResultsOut) : ~ResultsOut[i].passed
    /\ frame = Given
    /\ validator = validation.validator

\* C16: in every report, passed holds exactly when error_count is 0,
\* has_critical_failures holds exactly when some result is failed and
\* CRITICAL, so it implies not passed, is false when every CRITICAL result
\* passed, and is false (with passed true) for a report without results;
\* to_dict carries the same three values.
C16_ReportProperties ==
    validation.called
    => LET failed   == {i \in 1..Len(ResultsOut) : ~ResultsOut[i].passed}
           critical == {i \in 1..Len(ResultsOut) : ResultsOut[i].severity = "critical"}
       IN  /\ passed(ResultsOut) <=> failed = {}
           /\ passed(ResultsOut) <=> error_count(ResultsOut) = 0
           /\ has_critical_failures(ResultsOut) <=> failed \cap critical # {}
           /\ has_critical_failures(ResultsOut) => ~passed(ResultsOut)
           /\ ResultsOut = <<>> => /\ passed(ResultsOut)
                                   /\ ~has_critical_failures(ResultsOut)
           /\ validation.dict.passed = passed(ResultsOut)
           /\ validation.dict.error_count = error_count(ResultsOut)
           /\ validation.dict.has_critical_failures = has_critical_failures(ResultsOut)

\* a report with a passed CRITICAL result and a failed result that is not
\* CRITICAL
C16_Witness ==
    /\ validation.called
    /\ Len(ResultsOut) = 2
    /\ \E i \in 1..2 : ResultsOut[i].passed /\ ResultsOut[i].severity = "critical"
    /\ \E i \in 1..2 : ~ResultsOut[i].passed /\ ResultsOut[i].severity # "critical"
    /\ ~validation.dict.passed
    /\ validation.dict.error_count = 1
    /\ ~validation.dict.has_critical_failures

\* C17: for a dataset of any number of rows, none included, a null check
\* on a column of the dataset passes exactly when the number of missing
\* values is at most the threshold times the number of rows.
C17_NullFractionCheck ==
    validation.called
    => \A i \in 1..Len(Checks) :
          (Checks[i].kind = "null" /\ Checks[i].column \in Given.columns)
          => (ResultsOut[i].passed
              <=> NullCount(Given, Checks[i].column) * 100
                    <= Checks[i].lo * Len(Given.rows))

\* C18: a uniqueness check on columns of the dataset passes exactly when no
\* two rows agree on all of them; when it fails, duplicate_count is the
\* number of rows minus the number of distinct combinations of their values.
C18_UniqueCheck ==
    validation.called
    => \A i \in 1..Len(Checks) :
          (Checks[i].kind = "unique" /\ Checks[i].columns \subseteq Given.columns)
          => LET C      == Checks[i].columns
                 n      == Len(Given.rows)
                 combos == {[c \in C |-> Given.rows[k][c]] : k \in 1..n}
             IN  /\ ResultsOut[i].passed
                    <=> ~\E a, b \in 1..n :
                            a # b /\ \A c \in C : Given.rows[a][c] = Given.rows[b][c]
                 /\ ~ResultsOut[i].passed
                    => ResultsOut[i].details.duplicate_count = n - Cardinality(combos)

\* a dataset of two equal rows: the check failed with duplicate_count 1
C18_Witness ==
    /\ validation.called
    /\ Len(Given.rows) = 2
    /\ \E i \in 1..Len(Checks) :
          /\ Checks[i].kind = "unique"
          /\ Checks[i].columns = {"order_id", "price"}
          /\ Checks[i].columns \subseteq Given.columns
          /\ ~ResultsOut[i].passed
          /\ ResultsOut[i].details.duplicate_count = 1

\* C19: a range check on a column of the dataset passes exactly when every
\* value present is at least min (if given) and at most max (if given), a
\* value equal to a bound being allowed; violations is the number of values
\* below min plus the number of values above max.
C19_RangeCheck ==
    validation.called
    => \A i \in 1..Len(Checks) :
          (Checks[i].kind = "range" /\ Checks[i].column \in Given.columns)
          => LET col    == Checks[i].column
                 values == {k \in 1..Len(Given.rows) : Given.rows[k][col] # Null}
                 low    == {k \in values : Checks[i].lo # NoBound
                                            /\ ~(Given.rows[k][col] >= Checks[i].lo)}
                 high   == {k \in values : Checks[i].hi # NoBound
                                            /\ ~(Given.rows[k][col] <= Checks[i].hi)}
             IN  /\ ResultsOut[i].passed <=> (low = {} /\ high = {})
                 /\ ResultsOut[i].details.violations
                       = Cardinality(low) + Cardinality(high)

\* the check with min = max = 1 passed on a dataset whose prices are all 1
C19_Witness ==
    /\ validation.called
    /\ Len(Given.rows) > 0
    /\ "price" \in Given.columns
    /\ \A k \in 1..Len(Given.rows) : Given.rows[k]["price"] = 1
    /\ \E i \in 1..Len(Checks) :
          /\ Checks[i].kind = "range"
          /\ Checks[i].lo = 1 /\ Checks[i].hi = 1
          /\ ResultsOut[i].passed
          /\ ResultsOut[i].details.violations = 0

\* business rule i was registered with a condition that raises on the dataset
ConditionRaises(i) ==
    Checks[i].kind = "business" /\ ~(Checks[i].columns \subseteq Given.columns)

\* C27: validate does not raise when the condition of a business rule
\* does; the rule's result is failed with severity ERROR whatever severity
\* it was declared with, so it does not make has_critical_failures true by
\* itself; the rules registered after it still have their results.
C27_RaisingRuleIsErrorResult ==
    validation.called
    => /\ validation.exc = "none"
       /\ Len(ResultsOut) = Len(Checks)
       /\ \A i \in 1..Len(Checks) :
             ConditionRaises(i) => /\ ~ResultsOut[i].passed
                                   /\ ResultsOut[i].severity = "error"
       /\ (\A i \in 1..Len(Checks) : ConditionRaises(i) \/ ResultsOut[i].passed)
          => ~validation.dict.has_critical_failures

\* a rule declared CRITICAL raised on a dataset without the price column;
\* the check registered after it ran, and the report has no critical failure
C27_Witness ==
    /\ validation.called
    /\ Len(Checks) = 2
    /\ ConditionRaises(1)
    /\ Checks[1].severity = "critical"
    /\ Len(ResultsOut) = 2
    /\ ResultsOut[1].severity = "error"
    /\ ~ResultsOut[1].passed
    /\ ResultsOut[2].passed
    /\ ~validation.dict.passed
    /\ ~validation.dict.has_critical_failures

----------------------------------------------------------------------------
(* Properties of the loader's strategies, checked under LoadSpec *)

\* the destination had no row, or did not exist, when the call was made
WasEmpty == ~call.before.exists \/ Len(call.before.rows) = 0

\* the strategy the three rules give, for a given reading of "key supplied"
StrategyFor(key_supplied) ==
    IF ~key_supplied THEN "batch"
    ELSE IF WasEmpty THEN "bulk"
    ELSE "upsert"

\* C21 as stated: on a non-empty dataset the strategy is given by (upsert
\* key supplied and upsert enabled, destination empty when the call is made).
C21_StrategyByKeyAndEmptiness ==
    (call.n > 0 /\ ~IsEmpty(call.df))
    => call.strategy = StrategyFor(cfg.upsert_enabled /\ call.upsert_key # NoKey)

\* C21 amended: the key counts as supplied only if it is also a column of
\* the dataset once projected onto the destination's columns; the strategy
\* follows from that and from the destination's emptiness when the call is
\* made, and the call takes exactly that one strategy.
C21_StrategyByUsableKeyAndEmptiness ==
    (call.n > 0 /\ ~IsEmpty(call.df))
    => /\ call.strategy \in {"batch", "bulk", "upsert"}
       /\ call.strategy =
             StrategyFor(/\ cfg.upsert_enabled
                         /\ call.upsert_key # NoKey
                         /\ call.upsert_key \in call.df.columns
                         /\ call.before.exists => call.upsert_key \in call.before.columns)

\* a bulk insert into a table that existed without rows, and whose rows
\* after the call are those of the dataset
C21_Witness ==
    /\ call.n > 0
    /\ call.strategy = "bulk"
    /\ call.before.exists
    /\ Len(call.before.rows) = 0
    /\ Len(call.df.rows) = 2
    /\ call.exc = "none"
    /\ Len(customers.rows) = 2

\* the dataset the call worked on and its consecutive batches of batch_size
\* rows, the last one possibly shorter
Worked == Prepared(call.before, call.df, call.now, TRUE)

NBatches == (Len(Worked.rows) + cfg.batch_size - 1) \div cfg.batch_size

Batch(b) ==
    Dataset(Worked.columns,
            [k \in 1..(IF b * cfg.batch_size <= Len(Worked.rows)
                        THEN cfg.batch_size
                        ELSE Len(Worked.rows) - (b - 1) * cfg.batch_size) |->
                Worked.rows[(b - 1) * cfg.batch_size + k]])

RECURSIVE AfterBatches(_, _)
\* the table once those of the batches 1..b that are in S were inserted, in
\* order, each by one to_sql
AfterBatches(S, b) ==
    IF b = 0 THEN call.before
    ELSE IF b \in S
    THEN to_sql(AfterBatches(S, b - 1), Batch(b), call.if_exists, cfg.db_type, TRUE).tbl
    ELSE AfterBatches(S, b - 1)

RECURSIVE SizeOfBatches(_, _)
SizeOfBatches(S, b) ==
    IF b = 0 THEN 0
    ELSE SizeOfBatches(S, b - 1) + (IF b \in S THEN Len(Batch(b).rows) ELSE 0)

\* C22: a call that took the batched append and returned: there is a set S
\* of batches such that a batch is in S exactly when the database accepted
\* its insert on the table as the earlier batches of S left it (so every
\* batch after a failed one was attempted), the table holds the rows of the
\* batches of S and nothing of the others, and the call returned the sum
\* of the sizes of the batches of S.
C22_BatchesAreIndependent ==
    (call.n > 0 /\ call.strategy = "batch" /\ call.exc = "none")
    => \E S \in SUBSET (1..NBatches) :
          /\ \A b \in 1..NBatches :
                b \in S <=> to_sql(AfterBatches(S, b - 1), Batch(b), call.if_exists,
                                   cfg.db_type, TRUE).exc = "none"
          /\ customers = AfterBatches(S, NBatches)
          /\ call.ret = SizeOfBatches(S, NBatches)

\* two batches of one row: the first was rejected (its key was in the
\* table), the second was inserted and counted
C22_Witness ==
    /\ call.n > 0
    /\ call.strategy = "batch"
    /\ call.if_exists = "append"
    /\ call.exc = "none"
    /\ cfg.batch_size = 1
    /\ Len(call.df.rows) = 2
    /\ HasKey(call.before, call.df.rows[1]["customer_id"])
    /\ ~HasKey(call.before, call.df.rows[2]["customer_id"])
    /\ call.ret = 1
    /\ Len(customers.rows) = Len(call.before.rows) + 1
    /\ HasKey(customers, call.df.rows[2]["customer_id"])

\* the rows of the prepared dataset that carry key k and a value for column c
Incoming(k, c) ==
    {j \in 1..Len(Worked.rows) :
        Worked.rows[j]["customer_id"] = k /\ Worked.rows[j][c] # Null}

Last(S) == CHOOSE j \in S : \A x \in S : x <= j

\* a row-level upsert into the keyed table that held rows
UpsertOntoRows ==
    /\ call.n > 0
    /\ call.strategy = "upsert"
    /\ call.exc = "none"
    /\ call.before.pk = "customer_id"

\* C25: after a row-level upsert, every row the table held is still at its
\* place with its key, and each other column of it holds the last non-null
\* value the dataset brought for that key (the call's time for created_at
\* and updated_at), or the stored value when the dataset brought none.
C25_NonNullColumnsOverwrite ==
    UpsertOntoRows
    => /\ Len(customers.rows) >= Len(call.before.rows)
       /\ \A i \in 1..Len(call.before.rows) :
             LET old == call.before.rows[i]
                 k   == old["customer_id"]
             IN  /\ customers.rows[i]["customer_id"] = k
                 /\ \A c \in call.before.columns \ {"customer_id"} :
                       customers.rows[i][c] =
                           IF Incoming(k, c) = {} THEN old[c]
                           ELSE Worked.rows[Last(Incoming(k, c))][c]

C25_Witness ==
    /\ UpsertOntoRows
    /\ Len(call.before.rows) = 2
    /\ Len(call.df.rows) = 1
    /\ call.df.rows[1]["customer_id"] = 1
    /\ call.df.rows[1]["city"] = Null
    /\ customers.rows[1]["city"] = 1
    /\ customers.rows[1]["created_at"] = call.now
    /\ customers.rows[1]["updated_at"] = call.now
    /\ customers.rows[2] = call.before.rows[2]

\* C30: after a call of load_dataframe, whichever strategy it took and
\* whether it returned or raised, the dataset the caller passed has the
\* columns and the rows it had before the call.
C30_CallerDatasetUntouched ==
    call.n > 0 => call.after = call.df

\* a bulk insert of two rows that raised: the caller's dataset is the one
\* it passed, without the two bookkeeping columns
C30_Witness ==
    /\ call.n > 0
    /\ call.strategy = "bulk"
    /\ call.exc = "IntegrityError"
    /\ Len(call.df.rows) = 2
    /\ call.after = call.df
    /\ df = call.df
    /\ call.after.columns = {"customer_id", "city"}

----------------------------------------------------------------------------
(* Properties of the loader on either database, checked under DialectSpec *)

\* the rows of the table that carry the stamp of the last call
WrittenNow ==
    {i \in 1..Len(customers.rows) : customers.rows[i]["updated_at"] = call.now}

\* the rows of the dataset that have a key
WithKey == {j \in 1..Len(call.df.rows) : call.df.rows[j]["customer_id"] # Null}

\* C23: after a batched append or a row-level upsert of a dataset with
\* pairwise different keys, the table holds at least as many rows written
\* by the call as the call reported: no reported row is undone by what
\* happened to a later row or batch.
C23_ReportedRowsStayPersisted ==
    (/\ call.n > 0
     /\ call.exc = "none"
     /\ call.if_exists = "append"
     /\ call.strategy \in {"batch", "upsert"}
     /\ DistinctKeys(call.df.rows, "customer_id"))
    => Cardinality(WrittenNow) >= call.ret

\* C24: a row-level upsert into the keyed table does not raise, writes
\* every row of the dataset that has a key, whatever rows come before or
\* after it, and counts each of them.
C24_FailingRowIsSkipped ==
    (/\ call.n > 0
     /\ call.strategy = "upsert"
     /\ call.before.pk = "customer_id")
    => /\ call.exc = "none"
       /\ \A j \in WithKey :
             \E i \in WrittenNow :
                 customers.rows[i]["customer_id"] = call.df.rows[j]["customer_id"]
       /\ call.ret >= Cardinality(WithKey)

\* the database the loader was not constructed for
OtherDialect == IF cfg.db_type = "sqlite" THEN "postgresql" ELSE "sqlite"

\* C26: a row-level upsert leaves the table, and returns the count, that
\* the same call on the same table would with the loader constructed for
\* the other database.
C26_DialectsEquivalent ==
    (call.n > 0 /\ call.strategy = "upsert")
    => LET other == load_dataframe(call.before, call.df, call.if_exists,
                                   call.upsert_key,
                                   [cfg EXCEPT !.db_type = OtherDialect],
                                   call.now, TRUE)
       IN  /\ other.exc = call.exc
           /\ other.ret = call.ret
           /\ other.tbl = customers

=============================================================================
